---------------------------- MODULE Spec2Model ----------------------------
(***************************************************************************)
(* YouTube Language Reactor Lite: the content script                       *)
(* (YouTubeLanguageReactor), the subtitle extractor (SubtitleExtractor)    *)
(* and the overlay manager (SubtitleOverlayManager), with the host page    *)
(* (URL, player, video element, animation frames, network) as environment. *)
(*                                                                         *)
(* JavaScript runs one task at a time: every action below is the code      *)
(* that runs between two suspension points (await of a fetch, a timer, an  *)
(* animation frame, an event).                                             *)
(*                                                                         *)
(* Times are integers in units of 0.1 s.                                   *)
(*                                                                         *)
(* Spec is the content script on the host page, SpecSync the overlay       *)
(* manager under playback, SpecHover the hover handlers with the           *)
(* translation responses. SpecResolve, SpecLocate, SpecSelect,             *)
(* SpecExtract, SpecParse and SpecWords each run one function of the       *)
(* extractor on arguments drawn from bounded sets. SpecNavigate is the     *)
(* content script under bursts of URL changes. SpecWorker is the service   *)
(* worker's message listener over chrome.storage.local, SpecCache its      *)
(* GET_TRANSLATION handlers, SpecVocabulary the vocabulary store called    *)
(* one call at a time, SpecDelete the same with the other storage keys     *)
(* written, SpecLanguage the GET_TRANSLATION handlers under changes of    *)
(* the target language; SpecToggle and SpecSave join the content script and the        *)
(* service worker for the enabled switch and for saving a word.            *)
(***************************************************************************)
EXTENDS Integers, Sequences, FiniteSets, Bags, TLC

VARIABLES
    reactor,    \* YouTubeLanguageReactor: isInitialized, currentVideoId, observer
    overlay,    \* SubtitleOverlayManager: root, container, segments, ...
    dom,        \* host page: url, player, video element, overlay nodes, frames
    tasks,      \* bag of checkAndInitialize and handleTranslationRequest
                \* invocations suspended at an await
    timers,     \* pending setTimeout(() => checkAndInitialize(), 1000)
    boot,       \* progress of init(): "constructed", "loading" or "ready"
    tornDown,   \* history: cleanup() has run since the URL last was a watch page
    call,       \* a single method invocation: its arguments, then its result
    pointer,    \* history of the hovers: a hover-out has happened; a
                \* translation has arrived during a hover since the last
                \* one; the words whose translation request has failed
    storage,    \* chrome.storage.local: vocabulary, settings, translationCache
    worker,     \* the service worker's message handlers under way
    answers,    \* history: the messages delivered to the service worker, the
                \* responses sent for each, the calls of the translation API,
                \* and for each word the first translation written to the
                \* cache with the number of messages delivered until then
    clock       \* Date.now()

vars == <<reactor, overlay, dom, tasks, timers, boot, tornDown, call, pointer,
          storage, worker, answers, clock>>

Null == "null"

\* the result of Array.prototype.find when no element matches (a value of no
\* segment's shape)
Undefined == [undefined |-> TRUE]

\* the null that getCurrentSegment returns in place of a segment
NullSegment == [null |-> TRUE]

\* the null held in place of a TranslationResponse
NullTranslation == [null |-> "translation"]

\* no method invocation under way
NoCall == [op |-> "none"]

\* chrome.storage.local with none of the three keys written
NoStorage == [vocabulary |-> << >>, settings |-> << >>, translationCache |-> << >>]

\* no message has been delivered to the service worker
NoAnswers == [messages |-> << >>, sent |-> << >>, apiCalls |-> << >>, cached |-> << >>]

\* the service worker is idle over an empty storage
WorkerAtRest ==
    /\ storage = NoStorage
    /\ worker = EmptyBag
    /\ answers = NoAnswers
    /\ clock = 0

\* no word has been hovered yet
NoPointer == [left |-> FALSE, supplied |-> FALSE, failed |-> {}]

-----------------------------------------------------------------------------
(* Bounds                                                                  *)

\* in-flight checkAndInitialize or handleTranslationRequest invocations
MaxTasks == 2
\* pending delayed re-checks
MaxTimers == 1
\* video.currentTime ranges over 0..MaxTime (units of 0.1 s)
MaxTime == 2
\* animation-frame loops that can be alive at once
MaxLoops == 2
\* segments in a list handed to the active-segment lookups
MaxSegments == 2
\* inline <script> elements of the page that mention ytInitialPlayerResponse
MaxScripts == 2
\* caption tracks in a list handed to the track selection
MaxTracks == 3
\* <text> nodes of a timed-text document
MaxNodes == 2
\* characters in the text content of a <text> node whose words are examined
MaxLen == 5
\* message handlers of the service worker under way at the same time
MaxHandlers == 2
\* messages delivered to the service worker
MaxMessages == 3

-----------------------------------------------------------------------------
(* The host page's data                                                    *)

\* video ids; "N" is a video without captions
Videos == {"A", "B", "N"}

\* window.location: a watch page of a video (pathname /watch, ?v= the id) or
\* a page that is not a watch page and carries no video id
Urls ==
    [path : {"watch"}, v : Videos] \cup {[path |-> "other", v |-> Null]}

\* captions.playerCaptionsTracklistRenderer.captionTracks of a video's
\* player response
CaptionTracks(v) ==
    CASE v = "A" -> << [baseUrl |-> "A.en", languageCode |-> "en"] >>
      [] v = "B" -> << [baseUrl |-> "B.fr", languageCode |-> "fr"],
                       [baseUrl |-> "B.en", languageCode |-> "en"] >>
      [] OTHER   -> << >>

\* the segment list parseXml produces for the timed text behind a baseUrl
TimedText(baseUrl) ==
    CASE baseUrl = "A.en" -> << [id |-> 0, startTime |-> 0, endTime |-> 2] >>
      [] baseUrl = "B.fr" -> << [id |-> 0, startTime |-> 1, endTime |-> 2],
                                [id |-> 1, startTime |-> 1, endTime |-> 3] >>
      [] baseUrl = "B.en" -> << [id |-> 0, startTime |-> 0, endTime |-> 1] >>
      [] OTHER            -> << >>

\* the 0.1 s dead zone of the sync loop
Threshold == 1

FrameIds == 1..MaxLoops

-----------------------------------------------------------------------------
(* The whole program state as one record, so that the methods compose      *)

State ==
    [reactor |-> reactor, overlay |-> overlay, dom |-> dom, tasks |-> tasks,
     tornDown |-> tornDown, pointer |-> pointer,
     storage |-> storage, worker |-> worker, answers |-> answers, clock |-> clock]

Commit(st) ==
    /\ reactor' = st.reactor
    /\ overlay' = st.overlay
    /\ dom' = st.dom
    /\ tasks' = st.tasks
    /\ tornDown' = (st.tornDown /\ ~(st.dom.url.path = "watch" /\ st.dom.url.v # Null))
    /\ pointer' = st.pointer
    /\ storage' = st.storage
    /\ worker' = st.worker
    /\ answers' = st.answers
    /\ clock' = st.clock
    /\ UNCHANGED call

-----------------------------------------------------------------------------
(* SubtitleExtractor                                                       *)

getVideoId(st) ==
    st.dom.url.v

isVideoPage(st) ==
    st.dom.url.path = "watch" /\ getVideoId(st) # Null

\* getCurrentSegment with the end of a segment included
getCurrentSegment_EndInclusive(subtitles, currentTime) ==
    LET matching == {i \in 1..Len(subtitles) :
                        /\ currentTime >= subtitles[i].startTime
                        /\ currentTime <= subtitles[i].endTime}
    IN  IF matching = {}
        THEN NullSegment
        ELSE subtitles[CHOOSE i \in matching : \A j \in matching : i <= j]

\* lines 222-226: this.subtitles.find(...) || null
getCurrentSegment(subtitles, currentTime) ==
    LET matching == {i \in 1..Len(subtitles) :
                        /\ currentTime >= subtitles[i].startTime
                        /\ currentTime < subtitles[i].endTime}
    IN  IF matching = {}
        THEN NullSegment
        ELSE subtitles[CHOOSE i \in matching : \A j \in matching : i <= j]

hasCaptions(response) ==
    response # Null /\ Len(CaptionTracks(response)) > 0

\* player responses: those of the videos, and "E", one whose captions object
\* lists no track ("N" has no captions object at all)
Responses == Videos \cup {"E"}

\* json.captions is truthy
captionsObject(response) ==
    response \in {"A", "B", "E"}

\* an inline script that mentions ytInitialPlayerResponse holds the JSON of a
\* response, or text the pattern does not match or JSON.parse rejects
Scripts == Responses \cup {"unparsable"}

\* what a page offers the three in-page methods
Pages ==
    [global : Responses \cup {Null},
     scripts : UNION {[1..k -> Scripts] : k \in 0..MaxScripts},
     legacy : Responses \cup {Null}]

\* the fetched watch page: the fetch rejects, or the HTML holds the JSON of a
\* response, or nothing the pattern matches and JSON.parse accepts
Fetched == Responses \cup {"unparsable", "error"}

\* lines 102-106, Method 1: window.ytInitialPlayerResponse
windowResponse(page) ==
    page.global

\* lines 108-127, Method 2: the first script whose JSON has a captions object
scriptResponse(page) ==
    LET valid == {i \in 1..Len(page.scripts) :
                     page.scripts[i] \in Responses /\ captionsObject(page.scripts[i])}
    IN  IF valid = {}
        THEN Null
        ELSE page.scripts[CHOOSE i \in valid : \A j \in valid : i <= j]

\* lines 129-132, Method 3: ytplayer.config.args.raw_player_response
configResponse(page) ==
    page.legacy

\* lines 100-136: the first method that finds any response
getPlayerResponse(page) ==
    IF windowResponse(page) # Null THEN windowResponse(page)
    ELSE IF scriptResponse(page) # Null THEN scriptResponse(page)
    ELSE configResponse(page)

\* lines 245-269: the fetched page's response if it has captions, else null
fetchPlayerResponseFallback(fetched) ==
    IF fetched \in Responses /\ hasCaptions(fetched) THEN fetched ELSE Null

\* lines 39-56 of extractSubtitles: the caption-track list the extraction goes
\* on with; << >> stands for the two throws ("Could not find player
\* response", "No caption tracks available")
locateCaptionTracks(page, fetched) ==
    LET found == getPlayerResponse(page)
        playerResponse == IF found = Null \/ ~hasCaptions(found)
                          THEN fetchPlayerResponseFallback(fetched)
                          ELSE found
    IN  IF playerResponse = Null THEN << >> ELSE CaptionTracks(playerResponse)

\* lines 39-46 and 100-136: the strategies run, in the order they are run
locateAttempts(page) ==
    LET found == getPlayerResponse(page)
    IN  << "window" >>
        \o (IF windowResponse(page) = Null THEN << "script" >> ELSE << >>)
        \o (IF windowResponse(page) = Null /\ scriptResponse(page) = Null
            THEN << "config" >> ELSE << >>)
        \o (IF found = Null \/ ~hasCaptions(found) THEN << "fetch" >> ELSE << >>)

\* the track selection taking the last track of the requested language
selectTrack_LastMatch(captionTracks, language) ==
    LET matching == {i \in 1..Len(captionTracks) :
                        captionTracks[i].languageCode = language}
    IN  IF language # Null /\ matching # {}
        THEN captionTracks[CHOOSE i \in matching : \A j \in matching : i >= j]
        ELSE captionTracks[1]

\* lines 58-65: the requested language's first track, else the first track
selectTrack(captionTracks, language) ==
    LET matching == {i \in 1..Len(captionTracks) :
                        captionTracks[i].languageCode = language}
    IN  IF language # Null /\ matching # {}
        THEN captionTracks[CHOOSE i \in matching : \A j \in matching : i <= j]
        ELSE captionTracks[1]

\* how the fetch of the timed text ends: XML with <text> nodes, XML without
\* any, a response that is not ok, a rejected fetch
TimedTextOutcomes == {"ok", "empty", "status", "rejected"}

\* lines 33-72, the try block of extractSubtitles on a page whose in-page
\* methods offer `page`: the value it returns, or thrown
tryExtractSubtitles(videoId, page, fetched, language, outcome) ==
    IF videoId = Null
    THEN [thrown |-> TRUE, value |-> << >>]
    ELSE LET captionTracks == locateCaptionTracks(page, fetched)
         IN  IF Len(captionTracks) = 0
             THEN [thrown |-> TRUE, value |-> << >>]
             ELSE IF outcome \in {"status", "rejected"}
             THEN [thrown |-> TRUE, value |-> << >>]
             ELSE [thrown |-> FALSE,
                   value  |-> IF outcome = "ok"
                              THEN TimedText(selectTrack(captionTracks, language).baseUrl)
                              ELSE << >>]

\* extractSubtitles with a catch clause that passes the error on
settleExtractSubtitles_Rethrow(videoId, page, fetched, language, outcome) ==
    LET r == tryExtractSubtitles(videoId, page, fetched, language, outcome)
    IN  IF r.thrown
        THEN [settled |-> "rejected", value |-> << >>]
        ELSE [settled |-> "fulfilled", value |-> r.value]

\* lines 32-77: how the promise of extractSubtitles settles; the catch clause
\* (lines 73-76) turns every throw into the empty list
settleExtractSubtitles(videoId, page, fetched, language, outcome) ==
    LET r == tryExtractSubtitles(videoId, page, fetched, language, outcome)
    IN  IF r.thrown
        THEN [settled |-> "fulfilled", value |-> << >>]
        ELSE [settled |-> "fulfilled", value |-> r.value]

-----------------------------------------------------------------------------
(* SubtitleExtractor: the timed-text parser. Text is a sequence of          *)
(* characters; a <text> node is its start and dur attributes (Null when     *)
(* absent) and its text content                                            *)

\* the characters of text content: letters, a blank, a tab, and what the
\* character reference &lt; is written with
Chars == {"l", "t", " ", "\t", "&", ";"}

\* \s of the regular expression
IsSpace(c) ==
    c \in {" ", "\t"}

\* lines 213-217: the text read back from a textarea's innerHTML; of the
\* character references only &lt; can be written with Chars, and the HTML
\* tokenizer accepts it with and without the semicolon
RECURSIVE decodeHtmlEntities(_)
decodeHtmlEntities(text) ==
    IF text = << >>
    THEN << >>
    ELSE IF Len(text) >= 3 /\ SubSeq(text, 1, 3) = <<"&", "l", "t">>
    THEN LET rest == SubSeq(text, 4, Len(text))
         IN  <<"<">> \o decodeHtmlEntities(IF rest # << >> /\ Head(rest) = ";"
                                           THEN Tail(rest) ELSE rest)
    ELSE <<Head(text)>> \o decodeHtmlEntities(Tail(text))

\* parseFloat on the decimal strings of the attributes, in units of 0.1 s
parseFloat(string) ==
    CASE string = "0"   -> 0
      [] string = "0.1" -> 1
      [] string = "0.2" -> 2

\* getAttribute(name) || '0'
attributeOrZero(value) ==
    IF value = Null \/ value = "" THEN "0" ELSE value

\* regex.exec with /\S+/g from lastIndex (0-based): the next longest run of
\* non-space characters as [index, length], length 0 for null
exec(text, lastIndex) ==
    LET starts == {i \in lastIndex..(Len(text) - 1) : ~IsSpace(text[i + 1])}
    IN  IF starts = {}
        THEN [index |-> 0, length |-> 0]
        ELSE LET index == CHOOSE i \in starts : \A j \in starts : i <= j
                 runs == {n \in 1..(Len(text) - index) :
                             \A k \in 1..n : ~IsSpace(text[index + k])}
             IN  [index |-> index,
                  length |-> CHOOSE n \in runs : \A m \in runs : n >= m]

\* the matches of the while loop of splitIntoWords, in order; lastIndex
\* moves to the end of each match
RECURSIVE matches(_, _)
matches(text, lastIndex) ==
    LET match == exec(text, lastIndex)
    IN  IF match.length = 0
        THEN << >>
        ELSE <<match>> \o matches(text, match.index + match.length)

\* splitIntoWords giving each word its position in the word list as
\* startIndex
splitIntoWords_TokenIndex(text, segmentId) ==
    LET found == matches(text, 0)
    IN  [k \in 1..Len(found) |->
            [id |-> segmentId \o "-word-" \o ToString(k - 1),
             text |-> SubSeq(text, found[k].index + 1, found[k].index + found[k].length),
             startIndex |-> k - 1,
             endIndex |-> found[k].index + found[k].length]]

\* splitIntoWords with endIndex the offset of the word's last character
splitIntoWords_EndInclusive(text, segmentId) ==
    LET found == matches(text, 0)
    IN  [k \in 1..Len(found) |->
            [id |-> segmentId \o "-word-" \o ToString(k - 1),
             text |-> SubSeq(text, found[k].index + 1, found[k].index + found[k].length),
             startIndex |-> found[k].index,
             endIndex |-> found[k].index + found[k].length - 1]]

\* lines 190-208; wordIndex is the number of the match, from 0
splitIntoWords(text, segmentId) ==
    LET found == matches(text, 0)
    IN  [k \in 1..Len(found) |->
            [id |-> segmentId \o "-word-" \o ToString(k - 1),
             text |-> SubSeq(text, found[k].index + 1, found[k].index + found[k].length),
             startIndex |-> found[k].index,
             endIndex |-> found[k].index + found[k].length]]

\* the text holds no word
Blank(text) ==
    \A n \in 1..Len(text) : IsSpace(text[n])

\* parseXml leaving out the <text> elements without a word
parseXml_SkipBlank(nodes) ==
    LET Worded(node) == ~Blank(decodeHtmlEntities(node.body))
        kept == SelectSeq(nodes, Worded)
    IN  [i \in 1..Len(kept) |->
            LET start == parseFloat(attributeOrZero(kept[i].start))
                duration == parseFloat(attributeOrZero(kept[i].dur))
                text == decodeHtmlEntities(kept[i].body)
            IN  [id |-> "segment-" \o ToString(i - 1),
                 startTime |-> start,
                 endTime |-> start + duration,
                 text |-> text,
                 words |-> splitIntoWords(text, "segment-" \o ToString(i - 1))]]

\* parseXml taking the duration as the end time
parseXml_EndIsDuration(nodes) ==
    [i \in 1..Len(nodes) |->
        LET start == parseFloat(attributeOrZero(nodes[i].start))
            duration == parseFloat(attributeOrZero(nodes[i].dur))
            text == decodeHtmlEntities(nodes[i].body)
        IN  [id |-> "segment-" \o ToString(i - 1),
             startTime |-> start,
             endTime |-> duration,
             text |-> text,
             words |-> splitIntoWords(text, "segment-" \o ToString(i - 1))]]

\* lines 163-185 on the <text> elements of the parsed document, in document
\* order; index is i - 1
parseXml(nodes) ==
    [i \in 1..Len(nodes) |->
        LET start == parseFloat(attributeOrZero(nodes[i].start))
            duration == parseFloat(attributeOrZero(nodes[i].dur))
            text == decodeHtmlEntities(nodes[i].body)
        IN  [id |-> "segment-" \o ToString(i - 1),
             startTime |-> start,
             endTime |-> start + duration,
             text |-> text,
             words |-> splitIntoWords(text, "segment-" \o ToString(i - 1))]]

-----------------------------------------------------------------------------
(* SubtitleOverlayManager                                                  *)

\* the props handed to root.render; overlay.rendered is << >> while nothing is
\* mounted and << props >> after a render into the mounted root
Props(o) ==
    [segments |-> o.segments, currentTime |-> o.currentTime,
     translation |-> o.translation, hoveredWord |-> o.hoveredWord,
     isEnabled |-> o.isEnabled]

\* the component's lookup (lines 33-36): the first segment, in list order,
\* with startTime <= currentTime < endTime
currentSegment(props) ==
    LET matching == {i \in 1..Len(props.segments) :
                        /\ props.currentTime >= props.segments[i].startTime
                        /\ props.currentTime < props.segments[i].endTime}
    IN  IF matching = {}
        THEN Undefined
        ELSE props.segments[CHOOSE i \in matching : \A j \in matching : i <= j]

render(st) ==
    IF st.overlay.root
    THEN [st EXCEPT !.overlay.rendered = << Props(st.overlay) >>]
    ELSE st

setSubtitles(st, segments) ==
    render([st EXCEPT !.overlay.segments = segments])

\* lines 190-193
setEnabled_NoRender(st, enabled) ==
    [st EXCEPT !.overlay.isEnabled = enabled]

setEnabled(st, enabled) ==
    render([st EXCEPT !.overlay.isEnabled = enabled])

\* lines 182-185
setTranslation(st, translation) ==
    render([st EXCEPT !.overlay.translation = translation])

\* lines 215-222 with the reactor's handleTranslationRequest (part_001 lines
\* 132-141) as the callback, up to its await of the GET_TRANSLATION message
handleWordHover(st, word) ==
    LET st1 == render([st EXCEPT !.overlay.hoveredWord = word])
    IN  [st1 EXCEPT !.tasks = @ (+) SetToBag({[pc |-> "getTranslation", word |-> word]})]

\* lines 227-231
handleWordLeave(st) ==
    render([st EXCEPT !.overlay.hoveredWord = Null,
                      !.overlay.translation = NullTranslation])

\* requestAnimationFrame(syncTime): a fresh callback id
requestAnimationFrame(st) ==
    LET id == CHOOSE f \in FrameIds \ st.dom.frames :
                  \A g \in FrameIds \ st.dom.frames : f <= g
    IN  [st EXCEPT !.dom.frames = @ \cup {id}, !.overlay.animationFrameId = id]

Abs(x) ==
    IF x < 0 THEN -x ELSE x

\* syncTime with the dead zone taken as "at least 0.1 s"
syncTime_AtLeastThreshold(st) ==
    LET newTime == st.dom.videoTime
        st1 == IF st.overlay.videoElement /\ Abs(newTime - st.overlay.currentTime) >= Threshold
               THEN render([st EXCEPT !.overlay.currentTime = newTime])
               ELSE st
    IN  requestAnimationFrame(st1)

\* syncTime storing the new time without rendering
syncTime_NoRender(st) ==
    LET newTime == st.dom.videoTime
        st1 == IF st.overlay.videoElement /\ Abs(newTime - st.overlay.currentTime) > Threshold
               THEN [st EXCEPT !.overlay.currentTime = newTime]
               ELSE st
    IN  requestAnimationFrame(st1)

\* the closure syncTime of startTimeSync
syncTime(st) ==
    LET newTime == st.dom.videoTime
        st1 == IF st.overlay.videoElement /\ Abs(newTime - st.overlay.currentTime) > Threshold
               THEN render([st EXCEPT !.overlay.currentTime = newTime])
               ELSE st
    IN  requestAnimationFrame(st1)

startTimeSync(st) ==
    syncTime(st)

\* initialize() without its "already initialized" check
initialize_AlwaysCreate(st) ==
    IF ~st.dom.player
    THEN [st |-> st, ok |-> FALSE]
    ELSE LET st1 == [st EXCEPT !.overlay.container = "attached",
                               !.dom.overlays = @ + 1,
                               !.overlay.root = TRUE,
                               !.overlay.rendered = << >>,
                               !.overlay.videoElement = st.dom.video]
             st2 == IF st1.overlay.videoElement THEN startTimeSync(st1) ELSE st1
         IN  [st |-> render(st2), ok |-> TRUE]

\* initialize(): the pair of the new state and the returned boolean
initialize(st) ==
    IF ~st.dom.player
    THEN [st |-> st, ok |-> FALSE]
    ELSE IF st.overlay.container = "attached"
    THEN [st |-> st, ok |-> TRUE]
    ELSE LET st1 == [st EXCEPT !.overlay.container = "attached",
                               !.dom.overlays = @ + 1,
                               !.overlay.root = TRUE,
                               !.overlay.rendered = << >>,
                               !.overlay.videoElement = st.dom.video]
             st2 == IF st1.overlay.videoElement THEN startTimeSync(st1) ELSE st1
         IN  [st |-> render(st2), ok |-> TRUE]

destroy(st) ==
    LET st1 == IF st.overlay.animationFrameId # 0
               THEN [st EXCEPT !.dom.frames = @ \ {st.overlay.animationFrameId}]
               ELSE st
        st2 == IF st1.overlay.root
               THEN [st1 EXCEPT !.overlay.root = FALSE, !.overlay.rendered = << >>]
               ELSE st1
    IN  IF st2.overlay.container # Null
        THEN [st2 EXCEPT !.overlay.container = Null,
                         !.dom.overlays = IF st2.overlay.container = "attached"
                                          THEN @ - 1 ELSE @]
        ELSE st2

-----------------------------------------------------------------------------
(* YouTubeLanguageReactor                                                  *)

cleanup(st) ==
    destroy([st EXCEPT !.reactor.isInitialized = FALSE, !.tornDown = TRUE])

\* the end of a checkAndInitialize; init() awaits the first one and then
\* installs the navigation listeners
finish(st, initial) ==
    IF initial THEN [st EXCEPT !.reactor.observer = TRUE] ELSE st

suspend(st, task) ==
    [st EXCEPT !.tasks = @ (+) SetToBag({task})]

\* initializeForVideo after `await extractSubtitles()` has produced subtitles
initializeForVideo(st, subtitles, initial) ==
    IF Len(subtitles) = 0
    THEN finish(st, initial)
    ELSE LET r == initialize(st)
         IN  IF ~r.ok
             THEN finish(r.st, initial)
             ELSE finish([setSubtitles(r.st, subtitles)
                             EXCEPT !.reactor.isInitialized = TRUE], initial)

\* extractSubtitles after the caption tracks are known, up to the await of
\* fetchSubtitles
fetchTrack(st, response, language, initial) ==
    LET captionTracks == CaptionTracks(response)
    IN  IF Len(captionTracks) = 0
        THEN initializeForVideo(st, << >>, initial)
        ELSE suspend(st, [pc |-> "fetchSubtitles", vid |-> Null,
                          url |-> selectTrack(captionTracks, language).baseUrl,
                          initial |-> initial])

\* extractSubtitles up to its first await; pageResponse is what
\* getPlayerResponse() finds in the page
extractSubtitles(st, pageResponse, initial) ==
    LET videoId == getVideoId(st)
    IN  IF videoId = Null
        THEN initializeForVideo(st, << >>, initial)
        ELSE IF ~hasCaptions(pageResponse)
        THEN suspend(st, [pc |-> "fallback", vid |-> videoId,
                          url |-> Null, initial |-> initial])
        ELSE fetchTrack(st, pageResponse, Null, initial)

\* checkAndInitialize without its "same video, already initialized" return
checkAndInitialize_NoSameVideoReturn(st, pageResponse, initial) ==
    IF ~isVideoPage(st)
    THEN finish(cleanup(st), initial)
    ELSE LET st1 == [st EXCEPT !.reactor.currentVideoId = getVideoId(st)]
         IN  IF st1.dom.player /\ st1.dom.video
             THEN extractSubtitles(st1, pageResponse, initial)
             ELSE suspend(st1, [pc |-> "waitForPlayer", vid |-> Null, url |-> Null,
                                initial |-> initial])

checkAndInitialize(st, pageResponse, initial) ==
    IF ~isVideoPage(st)
    THEN finish(cleanup(st), initial)
    ELSE IF getVideoId(st) = st.reactor.currentVideoId /\ st.reactor.isInitialized
    THEN finish(st, initial)
    ELSE LET st1 == [st EXCEPT !.reactor.currentVideoId = getVideoId(st)]
         IN  IF st1.dom.player /\ st1.dom.video
             THEN extractSubtitles(st1, pageResponse, initial)
             ELSE suspend(st1, [pc |-> "waitForPlayer", vid |-> Null, url |-> Null,
                                initial |-> initial])

-----------------------------------------------------------------------------
(* Initial state: the module singletons and the reactor are constructed,   *)
(* init() has not run yet                                                  *)

Init ==
    /\ reactor = [isInitialized |-> FALSE, currentVideoId |-> Null, observer |-> FALSE]
    /\ overlay = [root |-> FALSE, container |-> Null, segments |-> << >>,
                  currentTime |-> 0, videoElement |-> FALSE,
                  animationFrameId |-> 0, rendered |-> << >>,
                  hoveredWord |-> Null, translation |-> NullTranslation,
                  isEnabled |-> TRUE]
    /\ dom \in [url : Urls, player : BOOLEAN, video : BOOLEAN, videoTime : {0},
                overlays : {0}, frames : {{}}, toasts : {0}]
    /\ dom.video = dom.player
    /\ tasks = EmptyBag
    /\ timers = 0
    /\ boot = "constructed"
    /\ tornDown = FALSE
    /\ call = NoCall
    /\ pointer = NoPointer
    /\ WorkerAtRest

\* what getPlayerResponse() can find in the page: nothing, or the player
\* response of the page's video
PageResponses ==
    {Null, dom.url.v}

\* outcomes of a fetch: a document, a document without <text> nodes or
\* without captions, a rejected or non-ok response
FetchOutcomes == {"ok", "empty", "error"}

Bounded(st) ==
    BagCardinality(st.tasks) <= MaxTasks

resume(st, task) ==
    [st EXCEPT !.tasks = @ (-) SetToBag({task})]

-----------------------------------------------------------------------------
(* Actions of the content script                                           *)

\* init() with document.readyState === 'loading'
InitLoading ==
    /\ boot = "constructed"
    /\ boot' = "loading"
    /\ Commit([State EXCEPT !.reactor.observer = TRUE])
    /\ UNCHANGED timers

\* init() otherwise: await onPageReady(), then the listeners
InitReady ==
    /\ boot = "constructed"
    /\ boot' = "ready"
    /\ \E pr \in PageResponses : Commit(checkAndInitialize(State, pr, TRUE))
    /\ UNCHANGED timers

\* a re-check: checkAndInitialize() called from a listener
ReCheck ==
    \E pr \in PageResponses :
        LET st == checkAndInitialize(State, pr, FALSE)
        IN  Bounded(st) /\ Commit(st)

DOMContentLoaded ==
    /\ boot = "loading"
    /\ boot' = "ready"
    /\ ReCheck
    /\ UNCHANGED timers

\* the delayed re-check of the pushState hook or the popstate listener
TimerFires ==
    /\ timers > 0
    /\ timers' = timers - 1
    /\ ReCheck
    /\ UNCHANGED boot

\* the MutationObserver callback
MutationObserved ==
    /\ reactor.observer
    /\ getVideoId(State) # reactor.currentVideoId
    /\ ReCheck
    /\ UNCHANGED <<timers, boot>>

\* waitForPlayer's poll finds #movie_player and video
PollPlayer ==
    \E t \in BagToSet(tasks), pr \in PageResponses :
        /\ t.pc = "waitForPlayer"
        /\ dom.player /\ dom.video
        /\ Commit(extractSubtitles(resume(State, t), pr, t.initial))
        /\ UNCHANGED <<timers, boot>>

\* fetchPlayerResponseFallback's fetch of the watch page completes
FallbackFetched ==
    \E t \in BagToSet(tasks), outcome \in FetchOutcomes :
        /\ t.pc = "fallback"
        /\ LET st == resume(State, t)
           IN  IF outcome = "ok" /\ hasCaptions(t.vid)
               THEN Commit(fetchTrack(st, t.vid, Null, t.initial))
               ELSE Commit(initializeForVideo(st, << >>, t.initial))
        /\ UNCHANGED <<timers, boot>>

\* fetchSubtitles completes and parseXml runs
SubtitlesFetched ==
    \E t \in BagToSet(tasks), outcome \in FetchOutcomes :
        /\ t.pc = "fetchSubtitles"
        /\ LET st == resume(State, t)
               subtitles == IF outcome = "ok" THEN TimedText(t.url) ELSE << >>
           IN  Commit(initializeForVideo(st, subtitles, t.initial))
        /\ UNCHANGED <<timers, boot>>

\* a pending animation-frame callback runs
AnimationFrame ==
    \E f \in dom.frames :
        /\ Commit(syncTime([State EXCEPT !.dom.frames = @ \ {f}]))
        /\ UNCHANGED <<timers, boot>>

-----------------------------------------------------------------------------
(* Actions of the host page                                                *)

\* the page navigates in place; the pushState hook or the popstate listener
\* may schedule a delayed re-check
NavigateWithin(pending) ==
    /\ boot # "constructed"
    /\ \E u \in Urls \ {dom.url}, hooked \in BOOLEAN :
          /\ hooked => reactor.observer /\ timers < pending
          /\ timers' = IF hooked THEN timers + 1 ELSE timers
          /\ Commit([State EXCEPT !.dom.url = u])
    /\ UNCHANGED boot

Navigate ==
    /\ timers <= MaxTimers
    /\ NavigateWithin(MaxTimers)

\* playback or a seek moves video.currentTime
Playback ==
    /\ boot # "constructed"
    /\ \E t \in (0..MaxTime) \ {dom.videoTime} :
          Commit([State EXCEPT !.dom.videoTime = t])
    /\ UNCHANGED <<timers, boot>>

\* the page removes #movie_player, with the video element and the overlay
\* container inside it
PlayerRemoved ==
    /\ boot # "constructed"
    /\ dom.player
    /\ Cardinality(dom.frames) < MaxLoops
    /\ Commit([State EXCEPT
          !.dom.player = FALSE,
          !.dom.video = FALSE,
          !.dom.overlays = 0,
          !.overlay.container = IF @ = "attached" THEN "detached" ELSE @])
    /\ UNCHANGED <<timers, boot>>

\* the page builds a new #movie_player with its video element
PlayerAdded ==
    /\ boot # "constructed"
    /\ ~dom.player
    /\ Commit([State EXCEPT !.dom.player = TRUE, !.dom.video = TRUE])
    /\ UNCHANGED <<timers, boot>>

\* The content script with the host page. The video's clock stands still
\* here (every tick finds the stored time current); SpecSync below moves it.
Next ==
    \/ InitLoading
    \/ InitReady
    \/ DOMContentLoaded
    \/ TimerFires
    \/ MutationObserved
    \/ PollPlayer
    \/ FallbackFetched
    \/ SubtitlesFetched
    \/ AnimationFrame
    \/ Navigate
    \/ PlayerRemoved
    \/ PlayerAdded

Spec == Init /\ [][Next]_vars

\* the same, where timers fire and fetches settle: a poll of waitForPlayer
\* that can find the player runs, a pending delayed re-check runs, and a
\* fetch under way completes
SpecWait ==
    /\ Spec
    /\ WF_vars(PollPlayer)
    /\ WF_vars(TimerFires)
    /\ WF_vars(FallbackFetched)
    /\ WF_vars(SubtitlesFetched)

-----------------------------------------------------------------------------
(* The overlay manager under playback: the content script's calls into the *)
(* manager (initializeForVideo after a successful extraction, cleanup) in  *)
(* any order, with the animation frames and the video's clock              *)

InitSync ==
    /\ reactor = [isInitialized |-> FALSE, currentVideoId |-> Null, observer |-> TRUE]
    /\ overlay = [root |-> FALSE, container |-> Null, segments |-> << >>,
                  currentTime |-> 0, videoElement |-> FALSE,
                  animationFrameId |-> 0, rendered |-> << >>,
                  hoveredWord |-> Null, translation |-> NullTranslation,
                  isEnabled |-> TRUE]
    /\ dom \in [url : Urls, player : {TRUE}, video : {TRUE}, videoTime : 0..MaxTime,
                overlays : {0}, frames : {{}}, toasts : {0}]
    /\ tasks = EmptyBag
    /\ timers = 0
    /\ boot = "ready"
    /\ tornDown = FALSE
    /\ call = NoCall
    /\ pointer = NoPointer
    /\ WorkerAtRest

\* part_001 lines 105-121: extractSubtitles returned a non-empty list
SubtitlesReady ==
    /\ \E v \in Videos :
          /\ hasCaptions(v)
          /\ Commit(initializeForVideo(
                 State, TimedText(selectTrack(CaptionTracks(v), Null).baseUrl), FALSE))
    /\ UNCHANGED <<timers, boot>>

\* part_001 lines 51-54: a re-check away from a watch page
LeftVideoPage ==
    /\ Commit(cleanup(State))
    /\ UNCHANGED <<timers, boot>>

NextSync ==
    \/ SubtitlesReady
    \/ LeftVideoPage
    \/ AnimationFrame
    \/ Playback
    \/ PlayerRemoved
    \/ PlayerAdded

SpecSync == InitSync /\ [][NextSync]_vars

-----------------------------------------------------------------------------
(* Navigation: the content script is ready on a page with a player; the    *)
(* URL changes in bursts, each change through the pushState hook or the    *)
(* popstate listener scheduling its own delayed re-check                   *)

\* delayed re-checks pending at the same time
MaxPending == 2

InitNavigate ==
    /\ reactor = [isInitialized |-> FALSE, currentVideoId |-> Null, observer |-> TRUE]
    /\ overlay = [root |-> FALSE, container |-> Null, segments |-> << >>,
                  currentTime |-> 0, videoElement |-> FALSE,
                  animationFrameId |-> 0, rendered |-> << >>,
                  hoveredWord |-> Null, translation |-> NullTranslation,
                  isEnabled |-> TRUE]
    /\ dom \in [url : Urls, player : {TRUE}, video : {TRUE}, videoTime : {0},
                overlays : {0}, frames : {{}}, toasts : {0}]
    /\ tasks = EmptyBag
    /\ timers = 0
    /\ boot = "ready"
    /\ tornDown = FALSE
    /\ call = NoCall
    /\ pointer = NoPointer
    /\ WorkerAtRest

UrlChanged ==
    /\ timers <= MaxPending
    /\ NavigateWithin(MaxPending)

NextNavigate ==
    \/ UrlChanged
    \/ TimerFires
    \/ MutationObserved
    \/ FallbackFetched
    \/ SubtitlesFetched

SpecNavigate == InitNavigate /\ [][NextNavigate]_vars

-----------------------------------------------------------------------------
(* Single invocations of the extractor's and the overlay's functions: the  *)
(* program is as constructed, the arguments are drawn from bounded sets    *)
(* and the one action runs the function                                    *)

AtRest ==
    /\ reactor = [isInitialized |-> FALSE, currentVideoId |-> Null, observer |-> FALSE]
    /\ overlay = [root |-> FALSE, container |-> Null, segments |-> << >>,
                  currentTime |-> 0, videoElement |-> FALSE,
                  animationFrameId |-> 0, rendered |-> << >>,
                  hoveredWord |-> Null, translation |-> NullTranslation,
                  isEnabled |-> TRUE]
    /\ dom = [url |-> [path |-> "other", v |-> Null], player |-> FALSE, video |-> FALSE,
              videoTime |-> 0, overlays |-> 0, frames |-> {}, toasts |-> 0]
    /\ tasks = EmptyBag
    /\ timers = 0
    /\ boot = "constructed"
    /\ tornDown = FALSE
    /\ pointer = NoPointer
    /\ WorkerAtRest

Frozen ==
    UNCHANGED <<reactor, overlay, dom, tasks, timers, boot, tornDown, pointer,
                storage, worker, answers, clock>>

\* sequences over S of length at most n
SeqUpTo(S, n) ==
    UNION {[1..k -> S] : k \in 0..n}

\* segments as parseXml numbers them: ids by position, any start, an end
\* not before the start
SegmentLists ==
    LET Spans == {sp \in [startTime : 0..(MaxTime + 1), endTime : 0..(MaxTime + 1)] :
                     sp.startTime <= sp.endTime}
    IN  {[i \in 1..Len(q) |-> [id |-> i - 1, startTime |-> q[i].startTime,
                               endTime |-> q[i].endTime]] : q \in SeqUpTo(Spans, MaxSegments)}

InitResolve ==
    /\ AtRest
    /\ call \in [op : {"resolve"}, segments : SegmentLists, t : 0..(MaxTime + 1),
                  done : {FALSE}, ret : {Null}]

\* both lookups on the same list and time
Resolve ==
    /\ call.op = "resolve" /\ ~call.done
    /\ call' = [call EXCEPT
                   !.done = TRUE,
                   !.ret = [overlay   |-> currentSegment([segments |-> call.segments,
                                                          currentTime |-> call.t]),
                            extractor |-> getCurrentSegment(call.segments, call.t)]]
    /\ Frozen

NextResolve ==
    Resolve

SpecResolve == InitResolve /\ [][NextResolve]_vars

InitLocate ==
    /\ AtRest
    /\ call \in [op : {"locate"}, page : Pages, fetched : Fetched,
                  done : {FALSE}, ret : {Null}, attempts : {<< >>}]

\* extractSubtitles up to the caption-track list
Locate ==
    /\ call.op = "locate" /\ ~call.done
    /\ call' = [call EXCEPT !.done = TRUE,
                            !.ret = locateCaptionTracks(call.page, call.fetched),
                            !.attempts = locateAttempts(call.page)]
    /\ Frozen

NextLocate ==
    Locate

SpecLocate == InitLocate /\ [][NextLocate]_vars

\* language codes of caption tracks
LanguageCodes == {"en", "en-US", "fr"}

\* non-empty caption-track lists; the baseUrl tells the tracks apart
TrackLists ==
    UNION {{[i \in 1..k |-> [baseUrl |-> i, languageCode |-> codes[i]]] :
               codes \in [1..k -> LanguageCodes]} : k \in 1..MaxTracks}

InitSelect ==
    /\ AtRest
    /\ call \in [op : {"select"}, captionTracks : TrackLists,
                  language : LanguageCodes \cup {Null}, done : {FALSE}, ret : {Null}]

\* extractSubtitles lines 58-65 on a non-empty caption-track list
Select ==
    /\ call.op = "select" /\ ~call.done
    /\ call' = [call EXCEPT !.done = TRUE,
                            !.ret = selectTrack(call.captionTracks, call.language)]
    /\ Frozen

NextSelect ==
    Select

SpecSelect == InitSelect /\ [][NextSelect]_vars

\* the page offering the one response `found` to getPlayerResponse
PageWith(found) ==
    [global |-> found, scripts |-> << >>, legacy |-> Null]

\* the program before any overlay exists, on a page with a player
Unmounted ==
    [reactor |-> [isInitialized |-> FALSE, currentVideoId |-> Null, observer |-> TRUE],
     overlay |-> [root |-> FALSE, container |-> Null, segments |-> << >>,
                  currentTime |-> 0, videoElement |-> FALSE,
                  animationFrameId |-> 0, rendered |-> << >>,
                  hoveredWord |-> Null, translation |-> NullTranslation,
                  isEnabled |-> TRUE],
     dom |-> [url |-> [path |-> "other", v |-> Null], player |-> TRUE, video |-> TRUE,
              videoTime |-> 0, overlays |-> 0, frames |-> {}, toasts |-> 0],
     tasks |-> EmptyBag, tornDown |-> FALSE, pointer |-> NoPointer,
     storage |-> NoStorage, worker |-> EmptyBag, answers |-> NoAnswers, clock |-> 0]

\* the program after initializeForVideo has mounted the overlay of video "A"
Mounted ==
    initializeForVideo(Unmounted, TimedText("A.en"), FALSE)

\* initializeForVideo awaits extractSubtitles with the overlay unmounted or
\* still mounted from an earlier video, on any page
InitExtract ==
    /\ \E st \in {Unmounted, Mounted}, u \in Urls :
          /\ reactor = st.reactor
          /\ overlay = st.overlay
          /\ dom = [st.dom EXCEPT !.url = u]
          /\ tasks = st.tasks
          /\ tornDown = st.tornDown
          /\ pointer = st.pointer
          /\ WorkerAtRest
    /\ timers = 0
    /\ boot = "ready"
    /\ call \in [op : {"extract"}, found : Responses \cup {Null}, fetched : Fetched,
                  outcome : TimedTextOutcomes, done : {FALSE}, ret : {Null}]

\* part_001 lines 93-127: initializeForVideo from the call of
\* extractSubtitles to its return; a rejection would end in its catch clause
Extract ==
    /\ call.op = "extract" /\ ~call.done
    /\ LET ret == settleExtractSubtitles(getVideoId(State), PageWith(call.found),
                                         call.fetched, Null, call.outcome)
           st == IF ret.settled = "fulfilled"
                 THEN initializeForVideo(State, ret.value, FALSE)
                 ELSE State
       IN  /\ call' = [call EXCEPT !.done = TRUE, !.ret = ret]
           /\ reactor' = st.reactor
           /\ overlay' = st.overlay
           /\ dom' = st.dom
           /\ tasks' = st.tasks
           /\ tornDown' = st.tornDown
    /\ UNCHANGED <<timers, boot, pointer, storage, worker, answers, clock>>

NextExtract ==
    Extract

SpecExtract == InitExtract /\ [][NextExtract]_vars

\* <text> nodes with a short text content: start and dur absent, empty or a
\* decimal number; no, blank, one-word or two-word text
ShortNodes ==
    [start : {Null, "0.1", "0.2"}, dur : {Null, "", "0", "0.1"},
     body : {<< >>, <<" ">>, <<"l">>, <<"l", " ", "t">>}]

InitParse ==
    /\ AtRest
    /\ call \in [op : {"parseXml"}, nodes : SeqUpTo(ShortNodes, MaxNodes),
                  done : {FALSE}, ret : {Null}]

\* parseXml on a timed-text document
Parse ==
    /\ call.op = "parseXml" /\ ~call.done
    /\ call' = [call EXCEPT !.done = TRUE, !.ret = parseXml(call.nodes)]
    /\ Frozen

NextParse ==
    Parse

SpecParse == InitParse /\ [][NextParse]_vars

InitWords ==
    /\ AtRest
    /\ call \in [op : {"words"}, body : SeqUpTo(Chars, MaxLen), done : {FALSE}, ret : {Null}]

\* parseXml on a document of one <text> node with the text content body
Words ==
    /\ call.op = "words" /\ ~call.done
    /\ call' = [call EXCEPT
                   !.done = TRUE,
                   !.ret = parseXml(<< [start |-> "0.1", dur |-> "0.2",
                                        body |-> call.body] >>)[1]]
    /\ Frozen

NextWords ==
    Words

SpecWords == InitWords /\ [][NextWords]_vars

-----------------------------------------------------------------------------
(* Hovering: the overlay of video "A" is mounted and shows its segment; the *)
(* pointer enters and leaves word spans while the translations requested   *)
(* from the service worker arrive in any order                             *)

\* the texts of the words of the displayed segment
HoverWords == {"Cat", "cat,", "dog"}

\* service-worker.ts line 101 on the words of HoverWords: the characters
\* that are neither word characters nor white space are removed, then the
\* word is trimmed and lower-cased
cleanWord(word) ==
    CASE word = "Cat"  -> "cat"
      [] word = "cat," -> "cat"
      [] OTHER         -> word

\* the target languages of the settings; "vi" is the default
Languages == {"vi", "fr"}

\* what the translation API sends for a word and a target language
Translated(word, language) == word \o "@" \o language

\* the fetch of /api/translate: answered with a translation, answered with
\* a non-success status, or rejected for a network error
ApiOutcomes == {"ok", "status", "network"}

translateWord_RealOnFailure(request, outcome) ==
    [word        |-> request.word,
     translation |-> Translated(request.word, request.targetLanguage),
     language    |-> request.targetLanguage]

\* part_002 lines 40-75
translateWord(request, outcome) ==
    IF outcome = "ok"
    THEN [word        |-> request.word,
          translation |-> Translated(request.word, request.targetLanguage),
          language    |-> request.targetLanguage]
    ELSE [word        |-> request.word,
          translation |-> "[" \o request.word \o "]",
          language    |-> request.targetLanguage]

\* what chrome.runtime.sendMessage of GET_TRANSLATION settles to: the
\* worker's answer for one outcome of its API call, or a rejection
MessageOutcomes == ApiOutcomes \cup {"rejected"}

InitHover ==
    /\ reactor = [Mounted.reactor EXCEPT !.currentVideoId = "A"]
    /\ overlay = Mounted.overlay
    /\ dom = [Mounted.dom EXCEPT !.url = [path |-> "watch", v |-> "A"]]
    /\ tasks = EmptyBag
    /\ timers = 0
    /\ boot = "ready"
    /\ tornDown = FALSE
    /\ call = NoCall
    /\ pointer = NoPointer
    /\ WorkerAtRest

\* the span of a word of the displayed segment;
\* SubtitleOverlay.tsx line 66: onMouseEnter
WordHoverOf(word) ==
    /\ overlay.rendered # << >>
    /\ currentSegment(overlay.rendered[1]) # Undefined
    /\ LET st == handleWordHover(State, word)
       IN  Bounded(st) /\ Commit(st)
    /\ UNCHANGED <<timers, boot>>

WordHover ==
    \E word \in HoverWords : WordHoverOf(word)

\* SubtitleOverlay.tsx line 67: onMouseLeave of the hovered span
WordLeave ==
    /\ overlay.hoveredWord # Null
    /\ Commit([handleWordLeave(State)
                  EXCEPT !.pointer.left = TRUE, !.pointer.supplied = FALSE])
    /\ UNCHANGED <<timers, boot>>

\* service-worker.ts lines 97-131 with the default settings and nothing
\* cached: the answer to GET_TRANSLATION for one outcome of the API call
getTranslationResponse(word, outcome) ==
    [success |-> TRUE,
     data    |-> translateWord([word           |-> cleanWord(word),
                                targetLanguage |-> "vi"], outcome)]

\* part_001 lines 134-148, from the settling of the GET_TRANSLATION message
handleTranslationResponse(st, t, outcome) ==
    LET response == getTranslationResponse(t.word, outcome)
        st1      == [resume(st, t)
                        EXCEPT !.pointer.failed =
                                   IF outcome \in {"status", "network"}
                                   THEN @ \cup {t.word} ELSE @]
    IN  IF outcome # "rejected" /\ response.success
        THEN [setTranslation(st1, response.data)
                 EXCEPT !.pointer.supplied = @ \/ st.overlay.hoveredWord # Null]
        ELSE st1

TranslationReceivedAs(t, outcome) ==
    /\ t \in BagToSet(tasks)
    /\ t.pc = "getTranslation"
    /\ Commit(handleTranslationResponse(State, t, outcome))
    /\ UNCHANGED <<timers, boot>>

TranslationReceived ==
    \E t \in BagToSet(tasks), outcome \in MessageOutcomes :
        TranslationReceivedAs(t, outcome)

NextHover ==
    \/ WordHover
    \/ WordLeave
    \/ TranslationReceived

SpecHover == InitHover /\ [][NextHover]_vars

-----------------------------------------------------------------------------
(* The service worker: chrome.storage.local and the message handlers, each *)
(* a handler record that advances from one await to the next               *)

\* part_000 lines 78-85, the two settings the handlers read
DefaultSettings == [enabled |-> TRUE, targetLanguage |-> "vi"]

\* the object spread { ...a, ...b }
Merge(a, b) ==
    [k \in DOMAIN a \cup DOMAIN b |-> IF k \in DOMAIN b THEN b[k] ELSE a[k]]

\* storage.ts lines 85-93
getSettings(st) ==
    Merge(DefaultSettings, st.storage.settings)

\* String.prototype.toLowerCase on the words of the model
toLowerCase(word) ==
    IF word = "Cat" THEN "cat" ELSE word

\* storage.ts lines 108-117, given the cache object that was read
getCachedTranslation(cache, word) ==
    IF toLowerCase(word) \in DOMAIN cache THEN cache[toLowerCase(word)] ELSE Null

\* the words a GET_TRANSLATION request can ask for, cleaned
CleanWords == {cleanWord(word) : word \in HoverWords}

startsWithBracket_Never(translation) ==
    FALSE

\* service-worker.ts line 126 on the translations of the model:
\* translation.translation.startsWith('[')
startsWithBracket(translation) ==
    translation \in {"[" \o word \o "]" : word \in CleanWords}

findIndex_CaseSensitive(vocabulary, originalWord) ==
    LET matching == {i \in 1..Len(vocabulary) :
                        vocabulary[i].originalWord = originalWord}
    IN  IF matching = {} THEN 0
        ELSE CHOOSE i \in matching : \A j \in matching : i <= j

\* Array.prototype.findIndex of storage.ts lines 38-40 (0 for -1)
findIndex(vocabulary, originalWord) ==
    LET matching == {i \in 1..Len(vocabulary) :
                        toLowerCase(vocabulary[i].originalWord)
                            = toLowerCase(originalWord)}
    IN  IF matching = {} THEN 0
        ELSE CHOOSE i \in matching : \A j \in matching : i <= j

\* storage.ts lines 37-55: the item to store and the list with it, from the
\* list that was read; now is Date.now()
upsert(vocabulary, item, now) ==
    LET existingIndex == findIndex(vocabulary, item.originalWord)
        newItem       == Merge(item, [id        |-> IF existingIndex > 0
                                                    THEN vocabulary[existingIndex].id
                                                    ELSE now,
                                      timestamp |-> now])
    IN  [item       |-> newItem,
         vocabulary |-> IF existingIndex > 0
                        THEN [vocabulary EXCEPT ![existingIndex] = newItem]
                        ELSE Append(vocabulary, newItem)]

filterOut_FirstMatch(vocabulary, id) ==
    LET matching == {i \in 1..Len(vocabulary) : vocabulary[i].id = id}
        first    == CHOOSE i \in matching : \A j \in matching : i <= j
    IN  IF matching = {} THEN vocabulary
        ELSE SubSeq(vocabulary, 1, first - 1)
                 \o SubSeq(vocabulary, first + 1, Len(vocabulary))

\* Array.prototype.filter(v => v.id !== id) of storage.ts line 66
RECURSIVE filterOut(_, _)
filterOut(vocabulary, id) ==
    IF vocabulary = << >> THEN << >>
    ELSE IF Head(vocabulary).id # id
         THEN << Head(vocabulary) >> \o filterOut(Tail(vocabulary), id)
         ELSE filterOut(Tail(vocabulary), id)

\* the handler h goes on to its next await
advance(st, h, pc, local) ==
    [st EXCEPT !.worker = (@ (-) SetToBag({h}))
                              (+) SetToBag({[h EXCEPT !.pc = pc, !.local = local]})]

\* service-worker.ts lines 47-48: handleMessage has resolved; .then(sendResponse)
resolved(st, h, response) ==
    [st EXCEPT !.worker = @ (-) SetToBag({h}),
               !.answers.sent[h.id] = Append(@, response)]

\* service-worker.ts lines 49-52: handleMessage has rejected; the catch
\* answers with the error
rejected(st, h, error) ==
    [st EXCEPT !.worker = @ (-) SetToBag({h}),
               !.answers.sent[h.id] = Append(@, [success |-> FALSE, error |-> error])]

\* service-worker.ts lines 41-58 and 60-91: the listener calls handleMessage,
\* which runs up to the first await of the handler of the message's type; for
\* a type of no case it resolves at once
FirstAwait(type) ==
    CASE type \in {"GET_TRANSLATION", "GET_SETTINGS",
                   "UPDATE_SETTINGS", "TOGGLE_EXTENSION"} -> "getSettings"
      [] type \in {"SAVE_VOCABULARY", "GET_VOCABULARY",
                   "DELETE_VOCABULARY", "GET_STATS"}      -> "getVocabulary"
      [] OTHER                                            -> "none"

onMessage_NoDefault(st, message) ==
    LET id == Len(st.answers.messages) + 1
        h  == [id |-> id, type |-> message.type, payload |-> message.payload,
               pc |-> FirstAwait(message.type), local |-> << >>]
        st1 == [st EXCEPT !.answers.messages = Append(@, message),
                          !.answers.sent = Append(@, << >>)]
    IN  IF FirstAwait(message.type) = "none"
        THEN st1
        ELSE [st1 EXCEPT !.worker = @ (+) SetToBag({h})]

onMessage(st, message) ==
    LET id == Len(st.answers.messages) + 1
        h  == [id |-> id, type |-> message.type, payload |-> message.payload,
               pc |-> FirstAwait(message.type), local |-> << >>]
        st1 == [st EXCEPT !.answers.messages = Append(@, message),
                          !.answers.sent = Append(@, << >>),
                          !.worker = @ (+) SetToBag({h})]
    IN  IF FirstAwait(message.type) = "none"
        THEN resolved(st1, h, [success |-> FALSE, error |-> "Unknown message type"])
        ELSE st1

\* service-worker.ts lines 97-131, from one await to the next; api is the
\* outcome of the API call, written whether chrome.storage.local.set succeeds
handleGetTranslation(st, h, api, written) ==
    LET word == cleanWord(h.payload.word)
    IN  CASE h.pc = "getSettings" ->
                 advance(st, h, "getCachedTranslation", [settings |-> getSettings(st)])
          [] h.pc = "getCachedTranslation" ->
                 LET cached == getCachedTranslation(st.storage.translationCache, word)
                 IN  IF cached # Null
                     THEN resolved(st, h,
                              [success |-> TRUE,
                               data    |-> [word        |-> word,
                                            translation |-> cached,
                                            language    |-> h.local.settings.targetLanguage]])
                     ELSE advance(st, h, "translateWord", h.local)
          [] h.pc = "translateWord" ->
                 LET translation ==
                         translateWord([word           |-> word,
                                        targetLanguage |-> h.local.settings.targetLanguage],
                                       api)
                     st1 == [st EXCEPT !.answers.apiCalls = Append(@, word)]
                 IN  IF translation.translation # ""
                           /\ ~startsWithBracket(translation.translation)
                     THEN advance(st1, h, "cacheTranslation.get",
                                  [translation |-> translation])
                     ELSE resolved(st1, h, [success |-> TRUE, data |-> translation])
          [] h.pc = "cacheTranslation.get" ->
                 advance(st, h, "cacheTranslation.set",
                         [translation |-> h.local.translation,
                          cache       |-> st.storage.translationCache])
          [] h.pc = "cacheTranslation.set" ->
                 LET cache == Merge(h.local.cache,
                                    [w \in {word} |-> h.local.translation.translation])
                     first == [w \in {word} |->
                                  [after       |-> Len(st.answers.messages),
                                   translation |-> h.local.translation.translation]]
                     st1   == IF written
                              THEN [st EXCEPT !.storage.translationCache = cache,
                                              !.answers.cached = Merge(first, @)]
                              ELSE st
                 IN  resolved(st1, h, [success |-> TRUE, data |-> h.local.translation])

\* storage.ts lines 34-58 under service-worker.ts lines 133-139
handleSaveVocabulary(st, h, written) ==
    CASE h.pc = "getVocabulary" ->
             advance(st, h, "set", upsert(st.storage.vocabulary, h.payload, st.clock))
      [] h.pc = "set" ->
             IF written
             THEN resolved([st EXCEPT !.storage.vocabulary = h.local.vocabulary], h,
                           [success |-> TRUE, data |-> h.local.item])
             ELSE rejected(st, h, "set")

\* storage.ts lines 63-73 under service-worker.ts lines 146-149
handleDeleteVocabulary(st, h, written) ==
    CASE h.pc = "getVocabulary" ->
             advance(st, h, "set",
                     [filtered |-> filterOut(st.storage.vocabulary, h.payload.id)])
      [] h.pc = "set" ->
             IF written
             THEN resolved([st EXCEPT !.storage.vocabulary = h.local.filtered], h,
                           [success |-> TRUE])
             ELSE resolved(st, h, [success |-> FALSE])

\* service-worker.ts lines 141-144, 151-154 and 189-192: the handlers that
\* read and answer
handleGet(st, h) ==
    CASE h.type = "GET_VOCABULARY" ->
             resolved(st, h, [success |-> TRUE, data |-> st.storage.vocabulary])
      [] h.type = "GET_SETTINGS" ->
             resolved(st, h, [success |-> TRUE, data |-> getSettings(st)])
      [] h.type = "GET_STATS" ->
             resolved(st, h, [success |-> TRUE,
                              data    |-> [totalWords |-> Len(st.storage.vocabulary)]])

\* storage.ts lines 98-103 under service-worker.ts lines 156-168
handleUpdateSettings(st, h, written) ==
    CASE h.pc = "getSettings" ->
             advance(st, h, "set", [newSettings |-> Merge(getSettings(st), h.payload)])
      [] h.pc = "set" ->
             IF written
             THEN resolved([st EXCEPT !.storage.settings = h.local.newSettings], h,
                           [success |-> TRUE, data |-> h.local.newSettings])
             ELSE rejected(st, h, "set")

\* service-worker.ts lines 170-187; notified: the tab of this content script
\* is the active tab of the current window and its listener (part_001 lines
\* 255-263) receives the message
handleToggleExtension(st, h, written, notified) ==
    CASE h.pc = "getSettings" ->
             advance(st, h, "set", [newSettings |-> Merge(getSettings(st), h.payload)])
      [] h.pc = "set" ->
             IF written
             THEN advance([st EXCEPT !.storage.settings = h.local.newSettings], h,
                          "tabs.sendMessage", << >>)
             ELSE rejected(st, h, "set")
      [] h.pc = "tabs.sendMessage" ->
             resolved(IF notified THEN setEnabled(st, h.payload.enabled) ELSE st, h,
                      [success |-> TRUE])

\* one handler runs from the await it is at to its next await or its end
handlerStep(st, h, api, written, notified) ==
    CASE h.type = "GET_TRANSLATION"   -> handleGetTranslation(st, h, api, written)
      [] h.type = "SAVE_VOCABULARY"   -> handleSaveVocabulary(st, h, written)
      [] h.type = "DELETE_VOCABULARY" -> handleDeleteVocabulary(st, h, written)
      [] h.type = "UPDATE_SETTINGS"   -> handleUpdateSettings(st, h, written)
      [] h.type = "TOGGLE_EXTENSION"  -> handleToggleExtension(st, h, written, notified)
      [] OTHER                        -> handleGet(st, h)

\* the handlers under way and the messages delivered stay within the bounds
WorkerBounded(st) ==
    /\ BagCardinality(st.worker) <= MaxHandlers
    /\ Len(st.answers.messages) <= MaxMessages

\* a message of the given set is delivered to the service worker
Deliver(messages) ==
    \E message \in messages :
        LET st == onMessage(State, message)
        IN  WorkerBounded(st) /\ Commit(st)

\* the handler h goes from the await it is at to the next
HandlerStepOf(h, api, written, notified) ==
    /\ h \in BagToSet(worker)
    /\ Commit(handlerStep(State, h, api, written, notified))
    /\ UNCHANGED <<timers, boot>>

\* what the await the handler h is at can settle to
ApiChoices(h) == IF h.pc = "translateWord" THEN ApiOutcomes ELSE {"ok"}
SetChoices(h) == IF h.pc \in {"set", "cacheTranslation.set"} THEN BOOLEAN ELSE {TRUE}
TabChoices(h) == IF h.pc = "tabs.sendMessage" THEN BOOLEAN ELSE {TRUE}

HandlerStep ==
    \E h \in BagToSet(worker) :
        \E api \in ApiChoices(h), written \in SetChoices(h), notified \in TabChoices(h) :
            HandlerStepOf(h, api, written, notified)

-----------------------------------------------------------------------------
(* The enabled switch: the overlay of video "A" is mounted and the popup   *)
(* sends TOGGLE_EXTENSION messages, while the video plays, the sync loop   *)
(* ticks, the user leaves the video and comes back, or reloads the page    *)

\* clicks on the switch of the popup
MaxToggles == 2

ToggleMessages ==
    {[type |-> "TOGGLE_EXTENSION", payload |-> [enabled |-> enabled]] :
        enabled \in BOOLEAN}

InitToggle ==
    /\ reactor = [Mounted.reactor EXCEPT !.currentVideoId = "A"]
    /\ overlay = Mounted.overlay
    /\ dom = [Mounted.dom EXCEPT !.url = [path |-> "watch", v |-> "A"]]
    /\ tasks = EmptyBag
    /\ timers = 0
    /\ boot = "ready"
    /\ tornDown = FALSE
    /\ call = NoCall
    /\ pointer = NoPointer
    /\ WorkerAtRest

\* Popup.tsx lines 55-61: the switch of the popup is clicked
ToggleExtension ==
    /\ Len(answers.messages) < MaxToggles
    /\ Deliver(ToggleMessages)
    /\ UNCHANGED <<timers, boot>>

\* the watch page is loaded anew: a new content script with a new manager
\* (SubtitleOverlay.tsx line 285), the overlay of video "A" mounted again
Reload ==
    /\ Commit([State EXCEPT !.reactor = [Mounted.reactor EXCEPT !.currentVideoId = "A"],
                            !.overlay = Mounted.overlay,
                            !.dom = [Mounted.dom EXCEPT
                                        !.url = [path |-> "watch", v |-> "A"]]])
    /\ UNCHANGED <<timers, boot>>

NextToggle ==
    \/ ToggleExtension
    \/ HandlerStep
    \/ AnimationFrame
    \/ Playback
    \/ LeftVideoPage
    \/ SubtitlesReady
    \/ Reload

SpecToggle == InitToggle /\ [][NextToggle]_vars

-----------------------------------------------------------------------------
(* The vocabulary store: saveVocabularyItem and deleteVocabularyItem are   *)
(* called one at a time, each running to its end before the next begins    *)

\* the values of Date.now()
MaxClock == 2

\* the texts that are saved as originalWord
SaveWords == {"Cat", "cat", "dog"}

\* the items handed to saveVocabularyItem
SaveItems ==
    [originalWord : SaveWords, translation : {"x", "y"},
     contextSentence : {"s"}, videoId : {"A"}]

\* storage.ts lines 34-58, the whole call; written: the set succeeds
saveVocabularyItem(st, item, written) ==
    IF written
    THEN [st EXCEPT !.storage.vocabulary = upsert(@, item, st.clock).vocabulary]
    ELSE st

\* storage.ts lines 63-73, the whole call
deleteVocabularyItem(st, id, written) ==
    IF written
    THEN [st EXCEPT !.storage.vocabulary = filterOut(@, id)]
    ELSE st

InitVocabulary ==
    /\ AtRest
    /\ call = NoCall

SaveOf(item, written) ==
    /\ Commit(saveVocabularyItem(State, item, written))
    /\ UNCHANGED <<timers, boot>>

Save ==
    \E item \in SaveItems, written \in BOOLEAN : SaveOf(item, written)

Delete ==
    /\ \E id \in 0..MaxClock, written \in BOOLEAN :
          Commit(deleteVocabularyItem(State, id, written))
    /\ UNCHANGED <<timers, boot>>

\* time passes
Tick ==
    /\ clock < MaxClock
    /\ Commit([State EXCEPT !.clock = @ + 1])
    /\ UNCHANGED <<timers, boot>>

NextVocabulary ==
    \/ Save
    \/ Delete
    \/ Tick

SpecVocabulary == InitVocabulary /\ [][NextVocabulary]_vars

-----------------------------------------------------------------------------
(* Deleting from the vocabulary store: words are saved, settings and the   *)
(* translation cache are written, and deleteVocabularyItem is called, each *)
(* call running to its end before the next begins                          *)

\* a call of deleteVocabularyItem run to its end; call keeps the argument,
\* the boolean returned and the number of items the call found
DeleteOf(id, written) ==
    /\ storage' = deleteVocabularyItem(State, id, written).storage
    /\ call' = [op |-> "deleteVocabularyItem", id |-> id, ret |-> written,
                found |-> Len(storage.vocabulary)]
    /\ UNCHANGED <<reactor, overlay, dom, tasks, timers, boot, tornDown, pointer,
                   worker, answers, clock>>

DeleteCalled ==
    \E id \in 0..MaxClock, written \in BOOLEAN : DeleteOf(id, written)

\* storage.ts lines 98-103, the whole call, from the options page
UpdateSettings ==
    /\ Commit([State EXCEPT !.storage.settings =
                                Merge(getSettings(State), [targetLanguage |-> "fr"])])
    /\ UNCHANGED <<timers, boot>>

\* storage.ts lines 122-131, the whole call, for a translation of "cat"
CacheTranslation ==
    /\ Commit([State EXCEPT !.storage.translationCache =
                                Merge(@, [w \in {"cat"} |-> Translated("cat", "vi")])])
    /\ UNCHANGED <<timers, boot>>

NextDelete ==
    \/ \E item \in SaveItems : item.translation = "x" /\ SaveOf(item, TRUE)
    \/ Tick
    \/ UpdateSettings
    \/ CacheTranslation
    \/ DeleteCalled

SpecDelete == InitVocabulary /\ [][NextDelete]_vars

-----------------------------------------------------------------------------
(* The translation cache: GET_TRANSLATION messages are delivered to the    *)
(* service worker, whose handlers interleave at their awaits               *)

GetMessages ==
    {[type |-> "GET_TRANSLATION", payload |-> [word |-> word]] :
        word \in {"Cat", "dog"}}

InitCache ==
    /\ AtRest
    /\ call = NoCall

\* part_001 lines 134-141: a word is hovered
GetTranslation ==
    /\ Deliver(GetMessages)
    /\ UNCHANGED <<timers, boot>>

NextCache ==
    \/ GetTranslation
    \/ HandlerStep

SpecCache == InitCache /\ [][NextCache]_vars

-----------------------------------------------------------------------------
(* The target language: GET_TRANSLATION messages are handled while the     *)
(* options page changes the targetLanguage setting                         *)

\* the options page saves a target language
LanguageChanged ==
    /\ Deliver({[type |-> "UPDATE_SETTINGS", payload |-> [targetLanguage |-> language]] :
                   language \in Languages})
    /\ UNCHANGED <<timers, boot>>

NextLanguage ==
    \/ GetTranslation
    \/ LanguageChanged
    \/ HandlerStep

SpecLanguage == InitCache /\ [][NextLanguage]_vars

-----------------------------------------------------------------------------
(* The message listener: messages of every type, and of a type of no case, *)
(* are delivered to the service worker while earlier ones are handled      *)

\* messages delivered to the listener
MaxDeliveries == 2

\* part_000 lines 90-98 (MessageType), and "PING", a type of no case
AllMessages ==
    GetMessages
    \cup {[type |-> "SAVE_VOCABULARY",
           payload |-> [originalWord |-> "Cat", translation |-> "x",
                        contextSentence |-> "s", videoId |-> "A"]],
          [type |-> "SAVE_VOCABULARY",
           payload |-> [originalWord |-> "dog", translation |-> "y",
                        contextSentence |-> "s", videoId |-> "A"]],
          [type |-> "DELETE_VOCABULARY", payload |-> [id |-> 0]],
          [type |-> "UPDATE_SETTINGS", payload |-> [targetLanguage |-> "fr"]],
          [type |-> "TOGGLE_EXTENSION", payload |-> [enabled |-> FALSE]],
          [type |-> "GET_VOCABULARY", payload |-> << >>],
          [type |-> "GET_SETTINGS", payload |-> << >>],
          [type |-> "GET_STATS", payload |-> << >>],
          [type |-> "PING", payload |-> << >>]}

InitWorker ==
    /\ AtRest
    /\ call = NoCall

\* chrome.runtime.sendMessage from the content script, the popup or the
\* options page
MessageSent ==
    /\ Len(answers.messages) < MaxDeliveries
    /\ Deliver(AllMessages)
    /\ UNCHANGED <<timers, boot>>

NextWorker ==
    \/ MessageSent
    \/ HandlerStep

SpecWorker == InitWorker /\ [][NextWorker]_vars

-----------------------------------------------------------------------------
(* Saving a word: the overlay of video "A" is mounted; words of the        *)
(* displayed segment are clicked, the service worker handles the messages  *)
(* of the save, and meanwhile the user may navigate to another video       *)

\* part_001 lines 154-163 with SubtitleOverlay.tsx line 68: the click on a
\* word of the displayed segment, up to the await of GET_TRANSLATION; the
\* task remembers the video that was current at the click
handleWordSave(st, word, segment) ==
    LET st1 == onMessage(st, [type |-> "GET_TRANSLATION", payload |-> [word |-> word]])
    IN  [st1 EXCEPT !.tasks = @ (+) SetToBag({[pc        |-> "save.getTranslation",
                                               word      |-> word,
                                               segment   |-> segment,
                                               message   |-> Len(st1.answers.messages),
                                               clickedOn |-> st.reactor.currentVideoId]})]

\* part_001 lines 167-174: the vocabulary item built once the translation
\* has been answered; a segment's text is named by the segment's id
vocabularyItem(st, t, translationResponse) ==
    [originalWord    |-> t.word,
     translation     |-> translationResponse.data.translation,
     contextSentence |-> t.segment.id,
     videoId         |-> IF st.reactor.currentVideoId = Null
                         THEN "" ELSE st.reactor.currentVideoId]

\* part_001 lines 165-180: from the answer to GET_TRANSLATION to the await of
\* SAVE_VOCABULARY
sendSaveVocabulary(st, t) ==
    LET item == vocabularyItem(st, t, st.answers.sent[t.message][1])
        st1  == onMessage(resume(st, t), [type |-> "SAVE_VOCABULARY", payload |-> item])
    IN  [st1 EXCEPT !.tasks = @ (+) SetToBag({[t EXCEPT
                                                  !.pc = "save.saveVocabulary",
                                                  !.message = Len(st1.answers.messages)]})]

\* part_001 lines 182-184 with showSaveNotification (lines 198-209): from the
\* answer to SAVE_VOCABULARY to the end of handleWordSave
showSaveNotification(st, t) ==
    IF st.answers.sent[t.message][1].success
    THEN [resume(st, t) EXCEPT !.dom.toasts = @ + 1]
    ELSE resume(st, t)

\* clicks on a word; each sends two messages
MaxClicks == 1

InitSave ==
    /\ reactor = [Mounted.reactor EXCEPT !.currentVideoId = "A"]
    /\ overlay = Mounted.overlay
    /\ dom = [Mounted.dom EXCEPT !.url = [path |-> "watch", v |-> "A"]]
    /\ tasks = EmptyBag
    /\ timers = 0
    /\ boot = "ready"
    /\ tornDown = FALSE
    /\ call = NoCall
    /\ pointer = NoPointer
    /\ WorkerAtRest

\* SubtitleOverlay.tsx line 68: onClick of a word span
WordClick ==
    /\ Len(answers.messages) + 2 <= 2 * MaxClicks
    /\ overlay.rendered # << >>
    /\ overlay.rendered[1].isEnabled
    /\ currentSegment(overlay.rendered[1]) # Undefined
    /\ \E word \in {"Cat", "dog"} :
          LET st == handleWordSave(State, word, currentSegment(overlay.rendered[1]))
          IN  Bounded(st) /\ WorkerBounded(st) /\ Commit(st)
    /\ UNCHANGED <<timers, boot>>

\* the await of GET_TRANSLATION settles
TranslationAnswered(t) ==
    /\ t \in BagToSet(tasks)
    /\ t.pc = "save.getTranslation"
    /\ answers.sent[t.message] # << >>
    /\ Commit(sendSaveVocabulary(State, t))
    /\ UNCHANGED <<timers, boot>>

\* the await of SAVE_VOCABULARY settles
SaveAnswered(t) ==
    /\ t \in BagToSet(tasks)
    /\ t.pc = "save.saveVocabulary"
    /\ answers.sent[t.message] # << >>
    /\ Commit(showSaveNotification(State, t))
    /\ UNCHANGED <<timers, boot>>

WordSaveStep ==
    \E t \in BagToSet(tasks) : TranslationAnswered(t) \/ SaveAnswered(t)

\* the user goes to another page; the MutationObserver callback will see
\* the new URL
LinkFollowed ==
    /\ dom.url = [path |-> "watch", v |-> "A"]
    /\ Commit([State EXCEPT !.dom.url = [path |-> "watch", v |-> "B"]])
    /\ UNCHANGED <<timers, boot>>

NextSave ==
    \/ WordClick
    \/ HandlerStep
    \/ WordSaveStep
    \/ LinkFollowed
    \/ MutationObserved
    \/ FallbackFetched
    \/ SubtitlesFetched

SpecSave == InitSave /\ [][NextSave]_vars

-----------------------------------------------------------------------------
(* Properties                                                              *)

\* the segment lists the caption tracks of video v yield
ListsOf(v) ==
    {TimedText(CaptionTracks(v)[i].baseUrl) : i \in 1..Len(CaptionTracks(v))}

\* the URL is the watch page of the video the reactor has recorded
Current ==
    isVideoPage(State) /\ reactor.currentVideoId = getVideoId(State)

\* a step of checkAndInitialize called from a listener or from init()
ReCheckStep ==
    TimerFires \/ MutationObserved \/ DOMContentLoaded \/ InitReady

\* C1: once a re-check has recorded the new video id, the overlay of the
\* previous video is gone: in no state is an overlay mounted that renders the
\* segments of a video other than the recorded, current one.
C1_TeardownBeforeAcquisition ==
    Current /\ overlay.root /\ overlay.rendered # << >>
        => overlay.rendered[1].segments \in ListsOf(reactor.currentVideoId) \cup {<< >>}

\* C2: when no acquisition is in flight and no re-check is pending, a mounted
\* overlay holds a segment list of the video in the URL.
C2_SegmentsOfCurrentVideo ==
    Current /\ tasks = EmptyBag /\ timers = 0 /\ boot = "ready" /\ overlay.root
        => overlay.segments \in ListsOf(getVideoId(State))

\* C3: while the current video has no caption tracks and its acquisition is
\* over, no overlay is mounted.
C3_NoOverlayWithoutCaptions ==
    Current /\ ~hasCaptions(getVideoId(State)) /\ tasks = EmptyBag
        => ~overlay.root /\ overlay.rendered = << >>

\* C4: after the teardown on a page that is not a watch page, and for as long
\* as the URL stays off the watch page, the overlay is not mounted and
\* isInitialized is false.
C4_NoResurrection ==
    tornDown => ~overlay.root /\ ~reactor.isInitialized

\* the state a teardown is meant to leave
TornDownState ==
    /\ ~overlay.root
    /\ overlay.container # "attached"
    /\ dom.overlays = 0
    /\ dom.frames = {}
    /\ ~reactor.isInitialized

\* C5: a re-check on a page that is not a watch page leaves the overlay
\* unmounted, no container attached, no animation-frame callback pending and
\* isInitialized false; from that state a further such re-check changes
\* nothing.
C5_TeardownComplete ==
    [][~isVideoPage(State) /\ ReCheckStep
         => /\ TornDownState'
            /\ TornDownState => UNCHANGED <<overlay, dom, tasks>>]_vars

\* C6: at most one acquisition sequence is in flight.
C6_OneAcquisition ==
    BagCardinality(tasks) <= 1

\* C7: at most one overlay container is attached to the page.
C7_OneOverlay ==
    dom.overlays <= 1

\* C7 witness: an overlay is attached after the page removed an earlier one
\* and initialize() ran again (the earlier loop is still alive).
C7_Witness ==
    dom.overlays = 1 /\ overlay.container = "attached" /\ Cardinality(dom.frames) = 2

\* C8: with the session initialized and the URL still on the recorded video,
\* a re-check starts no acquisition and changes neither the overlay, the page
\* nor the reactor.
C8_ReCheckIsNoOp ==
    [][Current /\ reactor.isInitialized /\ ReCheckStep
         => UNCHANGED <<reactor, overlay, dom, tasks>>]_vars

\* C8 witness: an initialized session with its overlay mounted, and a delayed
\* re-check about to run on the same video.
C8_Witness ==
    Current /\ reactor.isInitialized /\ overlay.root /\ timers > 0

C10_TickThreshold ==
    [][AnimationFrame
         => IF Abs(dom.videoTime - overlay.currentTime) > Threshold
            THEN /\ overlay'.currentTime = dom.videoTime
                 /\ overlay.root => overlay'.rendered = << Props(overlay') >>
            ELSE [overlay' EXCEPT !.animationFrameId = overlay.animationFrameId]
                     = overlay]_vars

\* C10 witness: a tick has stored a time more than the threshold away from the
\* initial one, and the next tick finds the video exactly the threshold away.
C10_Witness ==
    /\ overlay.root
    /\ dom.frames # {}
    /\ overlay.currentTime = 2
    /\ Abs(dom.videoTime - overlay.currentTime) = Threshold

\* the segment the mounted component shows: the lookup on the props of the
\* last render (nothing while no root is mounted or while isEnabled is false)
Displayed ==
    IF overlay.rendered = << >> \/ ~overlay.rendered[1].isEnabled
    THEN Undefined
    ELSE currentSegment(overlay.rendered[1])

Contains(S, i, t) ==
    S[i].startTime <= t /\ t < S[i].endTime

\* a lookup found nothing
Absent(r) ==
    r = Undefined \/ r = NullSegment

\* the parts of C12 that do not concern times outside the list: the result is
\* the first segment in list order containing t, nothing if none contains t;
\* it never has zero duration; both lookups agree.
C12_FirstMatch ==
    (call.op = "resolve" /\ call.done) =>
        LET S == call.segments
            t == call.t
            r == call.ret.extractor
        IN  /\ \A i \in 1..Len(S) :
                   (Contains(S, i, t) /\ \A j \in 1..(i - 1) : ~Contains(S, j, t)) => r = S[i]
            /\ (\A i \in 1..Len(S) : ~Contains(S, i, t)) => r = NullSegment
            /\ ~Absent(r) => r.startTime # r.endTime
            /\ IF Absent(r) THEN Absent(call.ret.overlay) ELSE call.ret.overlay = r

\* C12 as stated: first match in source order, none without a match, none
\* before the first segment's start and none after the last segment's end,
\* never a zero-duration segment, and the two lookups agree.
C12_ActiveSegment ==
    /\ C12_FirstMatch
    /\ (call.op = "resolve" /\ call.done /\ Len(call.segments) > 0) =>
          /\ call.t < call.segments[1].startTime => Absent(call.ret.extractor)
          /\ call.t >= call.segments[Len(call.segments)].endTime => Absent(call.ret.extractor)

\* C12 amended: as stated, with "before the first segment's start or after
\* the last segment" read over the whole list: nothing is returned for a time
\* before every segment's start or at or after every segment's end.
C12_ActiveSegmentOutsideAll ==
    /\ C12_FirstMatch
    /\ (call.op = "resolve" /\ call.done) =>
          /\ (\A i \in 1..Len(call.segments) : call.t < call.segments[i].startTime)
                 => Absent(call.ret.extractor)
          /\ (\A i \in 1..Len(call.segments) : call.t >= call.segments[i].endTime)
                 => Absent(call.ret.extractor)

\* C12 witness: two overlapping segments both contain t, the first one
\* outlasts the second, and the lookups have returned the first.
C12_Witness ==
    /\ call.op = "resolve" /\ call.done
    /\ Len(call.segments) = 2
    /\ Contains(call.segments, 1, call.t) /\ Contains(call.segments, 2, call.t)
    /\ call.segments[1].endTime > call.segments[2].endTime
    /\ call.ret.extractor = call.segments[1]
    /\ call.ret.overlay = call.segments[1]

\* what each strategy yields on its own, in the order of the fallback chain
Yields(page, fetched) ==
    << windowResponse(page), scriptResponse(page), configResponse(page),
       fetchPlayerResponseFallback(fetched) >>

\* C13: the located caption tracks are those of the first strategy, in chain
\* order, whose yield has a non-empty caption-track list; a yield without
\* tracks neither wins nor stops the chain; "no captions" (the empty list)
\* results only when no strategy yields a non-empty list.
C13_FirstStrategyWithCaptions ==
    (call.op = "locate" /\ call.done) =>
        LET ys == Yields(call.page, call.fetched)
            winners == {i \in 1..4 : hasCaptions(ys[i])}
        IN  call.ret = IF winners = {}
                       THEN << >>
                       ELSE CaptionTracks(ys[CHOOSE i \in winners : \A j \in winners : i <= j])

\* C14: with a requested language, the selected track is the first listed
\* track whose languageCode equals it, if there is one; otherwise, and with no
\* requested language, it is the first listed track.
C14_TrackSelection ==
    (call.op = "select" /\ call.done) =>
        LET tracks == call.captionTracks
            Is(i) == call.language # Null /\ tracks[i].languageCode = call.language
        IN  /\ \A i \in 1..Len(tracks) :
                   (Is(i) /\ \A j \in 1..(i - 1) : ~Is(j)) => call.ret = tracks[i]
            /\ (\A i \in 1..Len(tracks) : ~Is(i)) => call.ret = tracks[1]

\* C14 witness: the requested language is that of the second and the third
\* track but not of the first, and the second track was selected.
C14_Witness ==
    /\ call.op = "select" /\ call.done
    /\ Len(call.captionTracks) = 3
    /\ call.captionTracks[1].languageCode # call.language
    /\ call.captionTracks[2].languageCode = call.language
    /\ call.captionTracks[3].languageCode = call.language
    /\ call.ret = call.captionTracks[2]

\* one of the failures of an extraction: no video id, no player response
\* with caption tracks from the page or from the fetched page, a rejected or
\* non-success fetch of the timed text, timed text without <text> nodes
ExtractionFails ==
    \/ getVideoId(State) = Null
    \/ ~hasCaptions(call.found)
          /\ ~(call.fetched \in Responses /\ hasCaptions(call.fetched))
    \/ call.outcome \in {"empty", "status", "rejected"}

\* C15: the promise of extractSubtitles is always fulfilled, never rejected;
\* on every failure its value is the empty list, and the caller then leaves
\* the overlay manager and isInitialized as they were.
C15_FailuresBecomeEmptyList ==
    [][Extract
         => /\ call'.ret.settled = "fulfilled"
            /\ ExtractionFails
                  => /\ call'.ret.value = << >>
                     /\ overlay' = overlay
                     /\ reactor'.isInitialized = reactor.isInitialized]_vars

\* C15 witness: on a watch page whose response has caption tracks, the fetch
\* of the timed text was answered with a non-success status; extractSubtitles
\* returned the empty list and the caller mounted nothing.
C15_Witness ==
    /\ call.op = "extract" /\ call.done
    /\ getVideoId(State) # Null
    /\ hasCaptions(call.found)
    /\ call.outcome = "status"
    /\ call.ret = [settled |-> "fulfilled", value |-> << >>]
    /\ ~overlay.root /\ ~reactor.isInitialized

\* the number an attribute of a node stands for, in units of 0.1 s: 0 when
\* the attribute is missing or empty
AttributeValue(value) ==
    CASE value \in {Null, "", "0"} -> 0
      [] value = "0.1" -> 1
      [] value = "0.2" -> 2

\* C16: parseXml yields one segment per <text> node, in node order, with
\* startTime the start attribute and endTime start + dur (a missing attribute
\* counting as 0); so startTime <= endTime, with equality exactly when dur
\* is zero.
C16_OneSegmentPerNode ==
    (call.op = "parseXml" /\ call.done) =>
        /\ Len(call.ret) = Len(call.nodes)
        /\ \A i \in 1..Len(call.nodes) :
              LET segment == call.ret[i]
                  node == call.nodes[i]
              IN  /\ segment.startTime = AttributeValue(node.start)
                  /\ segment.endTime = AttributeValue(node.start) + AttributeValue(node.dur)
                  /\ segment.startTime <= segment.endTime
                  /\ segment.startTime = segment.endTime <=> AttributeValue(node.dur) = 0

\* C16 witness: a document of two nodes, the first starting later than the
\* second and lasting 0.1 s, the second without a dur attribute; the
\* segments keep the order, the second of zero duration.
C16_Witness ==
    /\ call.op = "parseXml" /\ call.done
    /\ Len(call.nodes) = 2
    /\ call.nodes[1].start = "0.2" /\ call.nodes[1].dur = "0.1"
    /\ call.nodes[2].start = "0.1" /\ call.nodes[2].dur = Null
    /\ call.ret[1].startTime = 2 /\ call.ret[1].endTime = 3
    /\ call.ret[2].startTime = 1 /\ call.ret[2].endTime = 1

\* the concatenation of the texts of a word list, in order
RECURSIVE Concatenated(_)
Concatenated(words) ==
    IF words = << >> THEN << >> ELSE Head(words).text \o Concatenated(Tail(words))

NotSpace(c) ==
    ~IsSpace(c)

\* C17: each word's text is the segment's decoded text from startIndex
\* (inclusive) to endIndex (exclusive) and holds no whitespace character, and
\* the words' texts concatenated are the decoded text without its whitespace.
C17_WordsAreSubstrings ==
    (call.op = "words" /\ call.done) =>
        LET segment == call.ret
        IN  /\ \A k \in 1..Len(segment.words) :
                  LET word == segment.words[k]
                  IN  /\ word.startIndex >= 0 /\ word.endIndex <= Len(segment.text)
                      /\ word.text = SubSeq(segment.text, word.startIndex + 1, word.endIndex)
                      /\ \A n \in 1..Len(word.text) : ~IsSpace(word.text[n])
            /\ Concatenated(segment.words) = SelectSeq(segment.text, NotSpace)

\* C17 witness: a text of two words around a decoded character reference,
\* separated by whitespace that is not at offset 1, has been split.
C17_Witness ==
    /\ call.op = "words" /\ call.done
    /\ call.body = <<"&", "l", "t", " ", "t">>
    /\ call.ret.text = <<"<", " ", "t">>
    /\ Len(call.ret.words) = 2
    /\ call.ret.words[2].text = <<"t">>
    /\ call.ret.words[2].startIndex = 2 /\ call.ret.words[2].endIndex = 3

\* C18: the words of a segment do not overlap and are apart: a word ends
\* strictly before the next one starts, and every word has startIndex <
\* endIndex.
C18_WordOffsets ==
    (call.op = "words" /\ call.done) =>
        LET words == call.ret.words
        IN  /\ \A k \in 1..Len(words) : words[k].startIndex < words[k].endIndex
            /\ \A j, k \in 1..Len(words) :
                  j < k => words[j].endIndex < words[k].startIndex

\* C18 witness: three one-character words, each one whitespace character
\* after the one before.
C18_Witness ==
    /\ call.op = "words" /\ call.done
    /\ call.body = <<"l", " ", "t", "\t", "l">>
    /\ Len(call.ret.words) = 3
    /\ call.ret.words[1].endIndex = 1 /\ call.ret.words[2].startIndex = 2
    /\ call.ret.words[2].endIndex = 3 /\ call.ret.words[3].startIndex = 4

\* the ids of all words of a segment list, as a sequence
RECURSIVE WordIds(_)
WordIds(segments) ==
    IF segments = << >>
    THEN << >>
    ELSE [k \in 1..Len(Head(segments).words) |-> Head(segments).words[k].id]
             \o WordIds(Tail(segments))

\* C19: a <text> node with empty or whitespace-only text still yields a
\* segment, with no words; the k-th node (from 0) of the document yields the
\* k-th segment, of id "segment-k", with the node's decoded text; segment ids are
\* pairwise distinct, and so are word ids ("segment-k-word-j", j from 0)
\* within the list.
C19_BlankNodesKeepTheirPlace ==
    (call.op = "parseXml" /\ call.done) =>
        LET segments == call.ret
            ids == WordIds(segments)
        IN  /\ Len(segments) = Len(call.nodes)
            /\ \A i \in 1..Len(call.nodes) :
                  /\ segments[i].id = "segment-" \o ToString(i - 1)
                  /\ segments[i].text = decodeHtmlEntities(call.nodes[i].body)
                  /\ Blank(call.nodes[i].body) => segments[i].words = << >>
                  /\ \A j \in 1..Len(segments[i].words) :
                        segments[i].words[j].id
                            = "segment-" \o ToString(i - 1) \o "-word-" \o ToString(j - 1)
            /\ \A i, j \in 1..Len(segments) : i # j => segments[i].id # segments[j].id
            /\ \A i, j \in 1..Len(ids) : i # j => ids[i] # ids[j]

\* C19 witness: a whitespace-only node before a node of two words; the
\* second segment is "segment-1" and its second word "segment-1-word-1".
C19_Witness ==
    /\ call.op = "parseXml" /\ call.done
    /\ Len(call.nodes) = 2
    /\ call.nodes[1].body = <<" ">>
    /\ call.nodes[2].body = <<"l", " ", "t">>
    /\ call.ret[1].id = "segment-0" /\ call.ret[1].words = << >>
    /\ call.ret[2].id = "segment-1"
    /\ call.ret[2].words[2].id = "segment-1-word-1"

\* the mounted component shows the tooltip: it shows a segment, and both
\* hoveredWord and translation of the last props are set
TooltipDisplayed ==
    /\ Displayed # Undefined
    /\ overlay.rendered[1].hoveredWord # Null
    /\ overlay.rendered[1].translation # NullTranslation

ApiFailures == {"status", "network"}

\* C24 as stated: when the answer to a failed translation request arrives
\* for the hovered word, the tooltip shows no translation for it.
C24_FailedRequestShowsNothing ==
    [][\A t \in BagToSet(tasks), outcome \in ApiFailures :
          (TranslationReceivedAs(t, outcome) /\ overlay.hoveredWord = t.word)
              => ~TooltipDisplayed']_vars

\* C24 amended: the answer to a failed translation request stores the
\* placeholder "[word]" in place of a translation, which the tooltip shows
\* if a word is hovered; the handler ends there, the hovered word is kept;
\* a rejected message changes nothing but ends the handler; and a hover
\* after a failure is processed as any other: the word becomes the hovered
\* word and one more request is sent.
C24_FailedRequestShowsPlaceholder ==
    [][/\ \A t \in BagToSet(tasks), outcome \in ApiFailures :
            TranslationReceivedAs(t, outcome)
                => /\ overlay'.translation.translation
                          = "[" \o cleanWord(t.word) \o "]"
                   /\ overlay'.translation.word = cleanWord(t.word)
                   /\ overlay'.hoveredWord = overlay.hoveredWord
                   /\ TooltipDisplayed' <=> overlay.hoveredWord # Null
                   /\ tasks' (+) SetToBag({t}) = tasks
       /\ \A t \in BagToSet(tasks) :
            TranslationReceivedAs(t, "rejected")
                => /\ overlay' = overlay
                   /\ tasks' (+) SetToBag({t}) = tasks
       /\ \A word \in HoverWords :
            (pointer.failed # {} /\ WordHoverOf(word))
                => /\ overlay'.hoveredWord = word
                   /\ tasks' = tasks (+) SetToBag({[pc   |-> "getTranslation",
                                                    word |-> word]})]_vars

\* C24 witness: a word whose request failed has been hovered again and the
\* tooltip shows the translation the API has sent for it.
C24_Witness ==
    /\ TooltipDisplayed
    /\ overlay.hoveredWord \in pointer.failed
    /\ overlay.rendered[1].translation.translation
           = Translated(cleanWord(overlay.hoveredWord), "vi")

\* the content script's listener receives the TOGGLE_EXTENSION of handler h
ToggleReceived(h) ==
    /\ h \in BagToSet(worker)
    /\ h.type = "TOGGLE_EXTENSION" /\ h.pc = "tabs.sendMessage"
    /\ HandlerStepOf(h, "ok", TRUE, TRUE)

\* C22: setEnabled changes the flag and what is rendered, nothing else: the
\* segment list, the stored time, the sync loop, the container, the reactor
\* (isInitialized), the page and the tasks under way are as before; after
\* setEnabled(false) the overlay displays nothing; after setEnabled(true) a
\* mounted overlay displays the active segment of the stored time.
C22_SetEnabledOnlyHidesAndShows ==
    [][\A h \in BagToSet(worker) :
          ToggleReceived(h)
              => /\ overlay'.isEnabled = h.payload.enabled
                 /\ [overlay' EXCEPT !.isEnabled = TRUE, !.rendered = << >>]
                        = [overlay EXCEPT !.isEnabled = TRUE, !.rendered = << >>]
                 /\ reactor' = reactor /\ dom' = dom /\ tasks' = tasks
                 /\ storage' = storage
                 /\ ~h.payload.enabled => Displayed' = Undefined
                 /\ (h.payload.enabled /\ overlay.root)
                       => Displayed' = currentSegment(Props(overlay))]_vars

\* C22 witness: the switch has been turned off and on again, both messages
\* are answered, and the mounted overlay displays a segment with its sync
\* loop running.
C22_Witness ==
    /\ Len(answers.messages) = 2
    /\ ~answers.messages[1].payload.enabled /\ answers.messages[2].payload.enabled
    /\ worker = EmptyBag
    /\ overlay.isEnabled /\ overlay.root /\ overlay.animationFrameId # 0
    /\ Displayed # Undefined

\* C23: whenever the stored enabled setting is false and no toggle is under
\* way, the overlay displays nothing.
C23_StoredSettingGatesOverlay ==
    (worker = EmptyBag /\ ~getSettings(State).enabled) => Displayed = Undefined

C26_CachedWordsNeedNoApiCall ==
    [][\A h \in BagToSet(worker), api \in ApiOutcomes, written \in BOOLEAN :
          LET word == cleanWord(h.payload.word)
          IN  (/\ h.type = "GET_TRANSLATION"
               /\ HandlerStepOf(h, api, written, TRUE)
               /\ word \in DOMAIN answers.cached
               /\ h.id > answers.cached[word].after)
                  => /\ answers'.apiCalls = answers.apiCalls
                     /\ answers'.sent[h.id] # << >>
                           => answers'.sent[h.id][1].data.translation
                                  = answers.cached[word].translation]_vars

\* the strategies in chain order
Chain == << "window", "script", "config", "fetch" >>

\* C27: the strategies run are an initial part of the chain, in chain order
\* (none is run before all earlier ones have been); a strategy is run only if
\* no earlier one yields a non-empty caption-track list; and the fetch is run
\* exactly when none of the three in-page strategies yields such a list.
C27_ChainOrder ==
    (call.op = "locate" /\ call.done) =>
        LET ys == Yields(call.page, call.fetched)
        IN  /\ \A i \in 1..Len(call.attempts) :
                   /\ call.attempts[i] = Chain[i]
                   /\ \A j \in 1..(i - 1) : ~hasCaptions(ys[j])
            /\ (\E i \in 1..Len(call.attempts) : call.attempts[i] = "fetch")
                   <=> \A j \in 1..3 : ~hasCaptions(ys[j])

\* C28: a navigation trigger leads to a re-check only through its delay: every
\* re-check is the firing of a pending delayed re-check; and the triggers of
\* a burst share one delayed re-check: at most one is pending.
C28_TriggersAreDebounced ==
    [][/\ (TimerFires \/ MutationObserved) => timers' = timers - 1
       /\ timers' <= 1]_vars

\* the handler of message id is under way
UnderWay(id) ==
    \E h \in BagToSet(worker) : h.id = id

\* C29: every delivered message is answered exactly once when its handler
\* ends and not before: a message of no known type at once with success
\* false and an error; a handler whose storage write rejects with success
\* false (and an error, if the rejection escapes it); no sendResponse is
\* called twice, and no handler ends without one.
C29_OneResponsePerMessage ==
    /\ [](\A id \in 1..Len(answers.messages) :
             /\ Len(answers.sent[id]) = IF UnderWay(id) THEN 0 ELSE 1
             /\ (~UnderWay(id) /\ FirstAwait(answers.messages[id].type) = "none")
                   => answers.sent[id][1]
                          = [success |-> FALSE, error |-> "Unknown message type"])
    /\ [][\A h \in BagToSet(worker) :
             /\ HandlerStepOf(h, "ok", TRUE, TRUE)
                   => \/ UnderWay(h.id)'
                      \/ answers'.sent[h.id][1].success
             /\ (h.pc = "set" /\ HandlerStepOf(h, "ok", FALSE, TRUE))
                   => /\ ~UnderWay(h.id)'
                      /\ ~answers'.sent[h.id][1].success
                      /\ h.type # "DELETE_VOCABULARY"
                            => answers'.sent[h.id][1] = [success |-> FALSE, error |-> "set"]]_vars

\* C29 witness: two messages have been answered, one of no known type and
\* one whose handler was rejected.
C29_Witness ==
    /\ Len(answers.messages) = 2 /\ worker = EmptyBag
    /\ \E i, j \in 1..2 :
          /\ answers.messages[i].type = "PING"
          /\ answers.messages[j].type = "SAVE_VOCABULARY"
          /\ answers.sent[j][1] = [success |-> FALSE, error |-> "set"]

\* C30: the item sent to the store for a click has the clicked word's text,
\* the text of the segment it was clicked in and the id of the video that
\* was current at the click, whatever navigation has happened since; and the
\* save notification is shown exactly when the store has answered success.
C30_SavedEntryIsTheClickedOne ==
    [][\A t \in BagToSet(tasks) :
          /\ TranslationAnswered(t)
                => LET sent == answers'.messages[Len(answers'.messages)]
                   IN  /\ sent.type = "SAVE_VOCABULARY"
                       /\ sent.payload.originalWord = t.word
                       /\ sent.payload.contextSentence = t.segment.id
                       /\ sent.payload.videoId = t.clickedOn
          /\ SaveAnswered(t)
                => (dom'.toasts = dom.toasts + 1) = answers.sent[t.message][1].success
                   /\ dom'.toasts \in {dom.toasts, dom.toasts + 1}]_vars

\* the delivered messages of the given type whose answer reports success
Succeeded(type) ==
    {id \in 1..Len(answers.messages) :
        /\ answers.messages[id].type = type
        /\ answers.sent[id] # << >>
        /\ answers.sent[id][1].success}

\* C31: once every handler has ended, each word whose SAVE_VOCABULARY was
\* answered with success is in the stored vocabulary, when no
\* DELETE_VOCABULARY was delivered that could have removed it.
C31_NoSaveIsLost ==
    (/\ worker = EmptyBag
     /\ \A id \in 1..Len(answers.messages) :
            answers.messages[id].type # "DELETE_VOCABULARY")
        => \A id \in Succeeded("SAVE_VOCABULARY") :
               \E k \in 1..Len(storage.vocabulary) :
                   toLowerCase(storage.vocabulary[k].originalWord)
                       = toLowerCase(answers.messages[id].payload.originalWord)

\* C32: no two items of the stored vocabulary have the same id.
C32_IdsAreUnique ==
    \A i, j \in 1..Len(storage.vocabulary) :
        storage.vocabulary[i].id = storage.vocabulary[j].id => i = j

C34_TranslationIsForConfiguredLanguage ==
    \A id \in Succeeded("GET_TRANSLATION") :
        LET data == answers.sent[id][1].data
        IN  ~startsWithBracket(data.translation)
                => data.translation = Translated(data.word, data.language)

\* C35: no word is cached with its placeholder "[word]"; a handler that does
\* not find its word in the cache goes on to call the API; when the call
\* fails it answers with the placeholder and writes nothing, when the call
\* succeeds it holds the API's translation, and it answers with that; so a
\* placeholder is answered only by the handler whose own API call failed.
C35_PlaceholderIsNotCached ==
    /\ [](\A w \in DOMAIN storage.translationCache :
             storage.translationCache[w] # "[" \o w \o "]")
    /\ [][\A h \in BagToSet(worker) : \A api \in ApiChoices(h), written \in SetChoices(h) :
             LET word == cleanWord(h.payload.word)
             IN  (/\ h.type = "GET_TRANSLATION"
                  /\ h.pc \in {"getCachedTranslation", "translateWord",
                               "cacheTranslation.set"}
                  /\ HandlerStepOf(h, api, written, TRUE))
                     => /\ (/\ h.pc = "getCachedTranslation"
                            /\ word \notin DOMAIN storage.translationCache)
                              => \E g \in BagToSet(worker') :
                                     g.id = h.id /\ g.pc = "translateWord"
                        /\ h.pc = "translateWord"
                              => /\ answers'.apiCalls = Append(answers.apiCalls, word)
                                 /\ storage' = storage
                                 /\ api # "ok"
                                       => answers'.sent[h.id]
                                              = << [success |-> TRUE,
                                                    data |-> [word |-> word,
                                                              translation |-> "[" \o word \o "]",
                                                              language |-> "vi"]] >>
                                 /\ api = "ok"
                                       => \E g \in BagToSet(worker') :
                                              /\ g.id = h.id
                                              /\ g.local.translation.translation
                                                     = Translated(word, "vi")
                        /\ h.pc = "cacheTranslation.set"
                              => answers'.sent[h.id][1].data.translation
                                     = Translated(word, "vi")]_vars

\* C35 witness: the first request for "Cat" was answered with the
\* placeholder; the second called the API again, was answered with the
\* API's translation, and that one is in the cache.
C35_Witness ==
    /\ Len(answers.messages) >= 2
    /\ answers.messages[1].payload.word = "Cat"
    /\ answers.messages[2].payload.word = "Cat"
    /\ answers.sent[1] # << >> /\ answers.sent[1][1].data.translation = "[cat]"
    /\ answers.sent[2] # << >>
    /\ answers.sent[2][1].data.translation = Translated("cat", "vi")
    /\ answers.apiCalls = << "cat", "cat" >>
    /\ storage.translationCache = [w \in {"cat"} |-> Translated("cat", "vi")]

\* C36: at most one syncTime callback of the manager is pending at any
\* time, and none while the manager has no container (after destroy()).
C36_OneSyncLoop ==
    /\ Cardinality(dom.frames) <= 1
    /\ overlay.container = Null => dom.frames = {}

\* C37: getSettings has a value for every field; and once every handler has
\* ended, targetLanguage is "fr" if an UPDATE_SETTINGS (which supplies "fr")
\* was answered with success and the default otherwise, and enabled is
\* false if a TOGGLE_EXTENSION (which supplies false) was answered with
\* success and the default otherwise.
C37_UpdatesKeepOtherKeys ==
    /\ DOMAIN getSettings(State) = DOMAIN DefaultSettings
    /\ worker = EmptyBag
          => /\ getSettings(State).targetLanguage
                    = IF Succeeded("UPDATE_SETTINGS") # {}
                      THEN "fr" ELSE DefaultSettings.targetLanguage
             /\ getSettings(State).enabled
                    = IF Succeeded("TOGGLE_EXTENSION") # {}
                      THEN FALSE ELSE DefaultSettings.enabled

\* a checkAndInitialize is polling in waitForPlayer
Polling ==
    \E t \in BagToSet(tasks) : t.pc = "waitForPlayer"

\* C38: a poll of waitForPlayer that runs after the URL has left the watch
\* page, or has changed to another video than the one checkAndInitialize
\* recorded, ends its checkAndInitialize with no acquisition started; and a
\* wait that is polling when the page is no watch page comes to an end
\* (or the page is a watch page again).
C38_WaitForPlayerEnds ==
    /\ [][\A t \in BagToSet(tasks), pr \in PageResponses :
             (/\ t.pc = "waitForPlayer"
              /\ ~isVideoPage(State) \/ getVideoId(State) # reactor.currentVideoId
              /\ dom.player /\ dom.video
              /\ Commit(extractSubtitles(resume(State, t), pr, t.initial))
              /\ UNCHANGED <<timers, boot>>)
                 => tasks' = tasks (-) SetToBag({t})]_vars
    /\ (Polling /\ ~isVideoPage(State)) ~> (~Polling \/ isVideoPage(State))

=============================================================================
